---- MODULE Spec2Model ----
(***************************************************************************)
(* Arduino-Rocket-Launcher: the RocketController launch state machine and  *)
(* its non-blocking buzzer sequencer (RocketController.cpp/.h), driven     *)
(* through the ArduinoInterface by a polling loop.  The interface is the   *)
(* MockArduinoInterface of test_rocket_controller.cpp, the only            *)
(* implementation of ArduinoInterface in the repository.                   *)
(*                                                                         *)
(* The 2x16 text sink (lcdClear/lcdSetCursor/lcdPrint, updateLCD and the   *)
(* function-static lastUpd that only paces display refreshes) is           *)
(* write-only: nothing in the controller reads it back, so it is left out. *)
(***************************************************************************)
EXTENDS Integers, Sequences, FiniteSets, TLC

----------------------------------------------------------------------------
(* Bounds of the model *)

\* width of the millisecond counter (uint32_t in the source)
ClockBits == 16
\* number of ticks of the polling loop that are explored
MaxTicks == 9
\* spacing, in ms, between two consecutive ticks of the polling loop
Steps == {250, 5000}
\* number of ticks explored while the start-up self-check runs
MaxBootTicks == 50
\* spacing, in ms, between two consecutive ticks during the self-check
BootSteps == {125, 250}
\* number of ticks, and of direct calls of enter(), explored when the
\* driver also calls enter() itself
MaxManualTicks == 3
MaxEnters == 1
\* number of ticks explored when the global-fault predicate is free
MaxFaultTicks == 6
MaxWrapTicks == 6
WrapSteps == {125, 250, 5000}
MaxBuzzTicks == 7
MaxLiveTicks == 120
MaxSkewTicks == 5
\* loop() calls of the firmware, and the time between two of them
MaxLoops == 10
MainSteps == {0, 4990}
LiveSteps == {100, 250}
MaxPlays == 2
MaxStops == 1
BuzzSteps == {40, 5000}

ClockMod == 2 ^ ClockBits

----------------------------------------------------------------------------
(* Program constants *)

HOLD_TO_LAUNCH_MS == 5000
RELAY_ON_MS == 5000
COOLDOWN_MS == 5000
ABORT_INHIBIT_MS == 1500
RESET_HOLD_MS == 2500
STARTUP_CHECKS_COUNT == 20
STARTUP_TOTAL_TIME_MS == 5000
STARTUP_CHECK_INTERVAL == STARTUP_TOTAL_TIME_MS \div STARTUP_CHECKS_COUNT

LOW == 0
HIGH == 1

PIN_LED_READY == 5
PIN_LED_ARMED == 6
PIN_LAUNCH_LIGHT == 7
PIN_RELAY == 8
Pins == {PIN_LED_READY, PIN_LED_ARMED, PIN_LAUNCH_LIGHT, PIN_RELAY}

State == {"STARTUP", "SPLASH", "READY", "ARMED", "LAUNCH_COUNTDOWN",
          "LAUNCHING", "COOLDOWN", "ABORT", "FAULT"}

Note(f, m, g) == [freq |-> f, ms |-> m, gap_ms |-> g]

SND_CHIRP == <<Note(2000, 80, 40), Note(2500, 80, 0)>>
SND_ARMED == <<Note(1200, 180, 120), Note(1600, 180, 700)>>
SND_COUNTDOWN_SIREN == <<Note(1400, 120, 40), Note(2600, 120, 720)>>
SND_LAUNCH == <<Note(1800, 500, 0)>>
SND_ABORT == <<Note(900, 120, 60), Note(700, 120, 60)>>
SND_FAULT == <<Note(800, 200, 50), Note(600, 200, 150)>>
SND_CHECK == <<Note(1500, 100, 0)>>

\* a sequence a caller may pass that has a silent note (frequency 0), which
\* none of the arrays above has
SEQ_REST == <<Note(0, 80, 40), Note(1500, 80, 0)>>

\* a BuzzNote pointer is modelled by the name of the array it points to
BuzzSeq(name) ==
    CASE name = "SND_CHIRP" -> SND_CHIRP
      [] name = "SND_ARMED" -> SND_ARMED
      [] name = "SND_COUNTDOWN_SIREN" -> SND_COUNTDOWN_SIREN
      [] name = "SND_LAUNCH" -> SND_LAUNCH
      [] name = "SND_ABORT" -> SND_ABORT
      [] name = "SND_FAULT" -> SND_FAULT
      [] name = "SND_CHECK" -> SND_CHECK
      [] name = "SEQ_REST" -> SEQ_REST
      [] OTHER -> <<>>

----------------------------------------------------------------------------
(* uint32_t arithmetic on the millisecond counter *)

\* a + b in uint32_t
Add(a, b) == (a + b) % ClockMod
\* a - b in uint32_t
Sub(a, b) == (a - b + ClockMod) % ClockMod
\* (long)x of a uint32_t x, long being as wide as uint32_t on the target (AVR)
AsLong(x) == IF x >= ClockMod \div 2 THEN x - ClockMod ELSE x

----------------------------------------------------------------------------
(* State *)

VARIABLES
    rc,     \* the RocketController object's fields
    hw,     \* the MockArduinoInterface object's clock, pins and tone
    now,    \* argument of the last update(now) call
    h,      \* history of the ticks so far (see History), read by no operation
    fw,     \* the board that runs main.cpp: its globals, clock and pins
    fh      \* history of the firmware's loops (see MainHistory)

vars == <<rc, hw, now, h, fw, fh>>

BuzzPlayer0 ==
    [seq |-> "nullptr", len |-> 0, idx |-> 0, loop |-> FALSE,
     inGap |-> FALSE, active |-> FALSE, stepDeadline |-> 0]

\* a constructor that leaves the system unlocked
RocketController0_Unlocked ==
    [state |-> "STARTUP", enteredAt |-> 0, deadline |-> 0,
     launchHeldSince |-> 0, resetHeldSince |-> 0, startupCheckIndex |-> 0,
     lastCheckTime |-> 0, completionTime |-> 0, startupComplete |-> FALSE,
     systemLocked |-> FALSE, buzzer |-> BuzzPlayer0]

\* the object after RocketController::RocketController
RocketController0 ==
    [state |-> "STARTUP", enteredAt |-> 0, deadline |-> 0,
     launchHeldSince |-> 0, resetHeldSince |-> 0, startupCheckIndex |-> 0,
     lastCheckTime |-> 0, completionTime |-> 0, startupComplete |-> FALSE,
     systemLocked |-> TRUE, buzzer |-> BuzzPlayer0]

\* the state getters of the controller c
getState(c) == c.state
isSystemLocked(c) == c.systemLocked
\* isArmed that is also true during the countdown
isArmed_InCountdown(c) == c.state \in {"ARMED", "LAUNCH_COUNTDOWN"}

isArmed(c) == c.state = "ARMED"
isLaunching(c) == c.state = "LAUNCHING"

\* the mock after MockArduinoInterface::reset
MockArduinoInterface0 ==
    [mock_millis |-> 0, mock_pin_states |-> [p \in Pins |-> LOW],
     mock_tone_active |-> FALSE, mock_tone_freq |-> 0]

\* the values the three debounced inputs can have during one update call
Inputs == [arm : BOOLEAN, reset : BOOLEAN, launch : BOOLEAN]

----------------------------------------------------------------------------
(* Interface calls; s is the record [rc, hw, in, fault]: the controller,    *)
(* the interface, the values its debounced inputs return during this call  *)
(* and the value the global-fault predicate returns during this call       *)

digitalWrite(s, pin, level) == [s EXCEPT !.hw.mock_pin_states[pin] = level]

tone(s, freq) == [s EXCEPT !.hw.mock_tone_active = TRUE, !.hw.mock_tone_freq = freq]

noTone(s) == [s EXCEPT !.hw.mock_tone_active = FALSE, !.hw.mock_tone_freq = 0]

isArmPressed(s) == s.in.arm
isResetPressed(s) == s.in.reset
isLaunchPressed(s) == s.in.launch
millis(s) == s.hw.mock_millis

----------------------------------------------------------------------------
(* RocketController helpers *)

\* setOutputs with the relay pin driven from the armedLed argument
setOutputs_RelayFromArmed(s, readyLed, armedLed, launchLamp, relayOn) ==
    LET s1 == digitalWrite(s, PIN_LED_READY, IF readyLed THEN HIGH ELSE LOW)
        s2 == digitalWrite(s1, PIN_LED_ARMED, IF armedLed THEN HIGH ELSE LOW)
        s3 == digitalWrite(s2, PIN_LAUNCH_LIGHT, IF launchLamp THEN HIGH ELSE LOW)
    IN  digitalWrite(s3, PIN_RELAY, IF armedLed THEN HIGH ELSE LOW)

setOutputs(s, readyLed, armedLed, launchLamp, relayOn) ==
    LET s1 == digitalWrite(s, PIN_LED_READY, IF readyLed THEN HIGH ELSE LOW)
        s2 == digitalWrite(s1, PIN_LED_ARMED, IF armedLed THEN HIGH ELSE LOW)
        s3 == digitalWrite(s2, PIN_LAUNCH_LIGHT, IF launchLamp THEN HIGH ELSE LOW)
    IN  digitalWrite(s3, PIN_RELAY, IF relayOn THEN HIGH ELSE LOW)

\* playBuzzerSequence that leaves the step deadline as it is
playBuzzerSequence_KeepsDeadline(s, sequence, length, loop) ==
    [s EXCEPT !.rc.buzzer =
        [seq |-> sequence, len |-> length, idx |-> 0, loop |-> loop,
         inGap |-> FALSE, active |-> (sequence # "nullptr" /\ length > 0),
         stepDeadline |-> s.rc.buzzer.stepDeadline]]

\* playBuzzerSequence that activates the sequencer whatever it is given
playBuzzerSequence_AlwaysActive(s, sequence, length, loop) ==
    [s EXCEPT !.rc.buzzer =
        [seq |-> sequence, len |-> length, idx |-> 0, loop |-> loop,
         inGap |-> FALSE, active |-> TRUE, stepDeadline |-> 0]]

playBuzzerSequence(s, sequence, length, loop) ==
    [s EXCEPT !.rc.buzzer =
        [seq |-> sequence, len |-> length, idx |-> 0, loop |-> loop,
         inGap |-> FALSE, active |-> (sequence # "nullptr" /\ length > 0),
         stepDeadline |-> 0]]

\* stopBuzzer that silences the tone but leaves the sequencer active
stopBuzzer_StaysActive(s) ==
    noTone([s EXCEPT !.rc.buzzer.seq = s.rc.buzzer.seq])

stopBuzzer(s) ==
    noTone([s EXCEPT !.rc.buzzer.active = FALSE, !.rc.buzzer.seq = "nullptr"])

\* what the body of globalFaultActive() returns
globalFaultActive_Stub == FALSE

\* the value globalFaultActive() returns during this call
globalFaultActive(s) == s.fault

----------------------------------------------------------------------------
(* RocketController::enter *)

\* enter that unlocks the system on entry into ARMED
enter_ArmedUnlocks(s, newState) ==
    LET s0 == [s EXCEPT !.rc.state = newState, !.rc.enteredAt = millis(s)]
        off == setOutputs(s0, FALSE, FALSE, FALSE, FALSE)
    IN  CASE newState = "STARTUP" ->
               [playBuzzerSequence(
                    [off EXCEPT !.rc.startupCheckIndex = 0,
                                !.rc.lastCheckTime = 0,
                                !.rc.startupComplete = FALSE],
                    "SND_CHIRP", 2, FALSE)
                EXCEPT !.rc.systemLocked = TRUE]
          [] newState = "SPLASH" ->
               [playBuzzerSequence(off, "SND_CHIRP", 2, FALSE)
                EXCEPT !.rc.deadline = Add(millis(s), 5000),
                       !.rc.systemLocked = TRUE]
          [] newState = "READY" ->
               [stopBuzzer(setOutputs(s0, TRUE, FALSE, FALSE, FALSE))
                EXCEPT !.rc.systemLocked = FALSE]
          [] newState = "ARMED" ->
               [playBuzzerSequence(setOutputs(s0, FALSE, TRUE, FALSE, FALSE),
                                   "SND_ARMED", 2, TRUE)
                EXCEPT !.rc.launchHeldSince = 0, !.rc.systemLocked = FALSE]
          [] newState = "LAUNCH_COUNTDOWN" ->
               playBuzzerSequence(setOutputs(s0, FALSE, TRUE, FALSE, FALSE),
                                  "SND_COUNTDOWN_SIREN", 2, TRUE)
          [] newState = "LAUNCHING" ->
               playBuzzerSequence(
                   [setOutputs(s0, FALSE, FALSE, TRUE, TRUE)
                    EXCEPT !.rc.deadline = Add(millis(s), RELAY_ON_MS)],
                   "SND_LAUNCH", 1, TRUE)
          [] newState = "COOLDOWN" ->
               stopBuzzer([off EXCEPT !.rc.deadline = Add(millis(s), COOLDOWN_MS)])
          [] newState = "ABORT" ->
               playBuzzerSequence(
                   [off EXCEPT !.rc.deadline = Add(millis(s), ABORT_INHIBIT_MS)],
                   "SND_ABORT", 2, FALSE)
          [] newState = "FAULT" ->
               [playBuzzerSequence([off EXCEPT !.rc.resetHeldSince = 0],
                                   "SND_FAULT", 2, TRUE)
                EXCEPT !.rc.systemLocked = FALSE]

\* enter that leaves systemLocked as it is on entry into FAULT
enter_FaultKeepsLock(s, newState) ==
    LET s0 == [s EXCEPT !.rc.state = newState, !.rc.enteredAt = millis(s)]
        off == setOutputs(s0, FALSE, FALSE, FALSE, FALSE)
    IN  CASE newState = "STARTUP" ->
               [playBuzzerSequence(
                    [off EXCEPT !.rc.startupCheckIndex = 0,
                                !.rc.lastCheckTime = 0,
                                !.rc.startupComplete = FALSE],
                    "SND_CHIRP", 2, FALSE)
                EXCEPT !.rc.systemLocked = TRUE]
          [] newState = "SPLASH" ->
               [playBuzzerSequence(off, "SND_CHIRP", 2, FALSE)
                EXCEPT !.rc.deadline = Add(millis(s), 5000),
                       !.rc.systemLocked = TRUE]
          [] newState = "READY" ->
               [stopBuzzer(setOutputs(s0, TRUE, FALSE, FALSE, FALSE))
                EXCEPT !.rc.systemLocked = FALSE]
          [] newState = "ARMED" ->
               [playBuzzerSequence(setOutputs(s0, FALSE, TRUE, FALSE, FALSE),
                                   "SND_ARMED", 2, TRUE)
                EXCEPT !.rc.launchHeldSince = 0]
          [] newState = "LAUNCH_COUNTDOWN" ->
               playBuzzerSequence(setOutputs(s0, FALSE, TRUE, FALSE, FALSE),
                                  "SND_COUNTDOWN_SIREN", 2, TRUE)
          [] newState = "LAUNCHING" ->
               playBuzzerSequence(
                   [setOutputs(s0, FALSE, FALSE, TRUE, TRUE)
                    EXCEPT !.rc.deadline = Add(millis(s), RELAY_ON_MS)],
                   "SND_LAUNCH", 1, TRUE)
          [] newState = "COOLDOWN" ->
               stopBuzzer([off EXCEPT !.rc.deadline = Add(millis(s), COOLDOWN_MS)])
          [] newState = "ABORT" ->
               playBuzzerSequence(
                   [off EXCEPT !.rc.deadline = Add(millis(s), ABORT_INHIBIT_MS)],
                   "SND_ABORT", 2, FALSE)
          [] newState = "FAULT" ->
               playBuzzerSequence([off EXCEPT !.rc.resetHeldSince = 0],
                                  "SND_FAULT", 2, TRUE)

\* enter that leaves launchHeldSince as it is when it enters ARMED
enter_ArmedKeepsHold(s, newState) ==
    LET s0 == [s EXCEPT !.rc.state = newState, !.rc.enteredAt = millis(s)]
        off == setOutputs(s0, FALSE, FALSE, FALSE, FALSE)
    IN  CASE newState = "STARTUP" ->
               [playBuzzerSequence(
                    [off EXCEPT !.rc.startupCheckIndex = 0,
                                !.rc.lastCheckTime = 0,
                                !.rc.startupComplete = FALSE],
                    "SND_CHIRP", 2, FALSE)
                EXCEPT !.rc.systemLocked = TRUE]
          [] newState = "SPLASH" ->
               [playBuzzerSequence(off, "SND_CHIRP", 2, FALSE)
                EXCEPT !.rc.deadline = Add(millis(s), 5000),
                       !.rc.systemLocked = TRUE]
          [] newState = "READY" ->
               [stopBuzzer(setOutputs(s0, TRUE, FALSE, FALSE, FALSE))
                EXCEPT !.rc.systemLocked = FALSE]
          [] newState = "ARMED" ->
               playBuzzerSequence(setOutputs(s0, FALSE, TRUE, FALSE, FALSE),
                                  "SND_ARMED", 2, TRUE)
          [] newState = "LAUNCH_COUNTDOWN" ->
               playBuzzerSequence(setOutputs(s0, FALSE, TRUE, FALSE, FALSE),
                                  "SND_COUNTDOWN_SIREN", 2, TRUE)
          [] newState = "LAUNCHING" ->
               playBuzzerSequence(
                   [setOutputs(s0, FALSE, FALSE, TRUE, TRUE)
                    EXCEPT !.rc.deadline = Add(millis(s), RELAY_ON_MS)],
                   "SND_LAUNCH", 1, TRUE)
          [] newState = "COOLDOWN" ->
               stopBuzzer([off EXCEPT !.rc.deadline = Add(millis(s), COOLDOWN_MS)])
          [] newState = "ABORT" ->
               playBuzzerSequence(
                   [off EXCEPT !.rc.deadline = Add(millis(s), ABORT_INHIBIT_MS)],
                   "SND_ABORT", 2, FALSE)
          [] newState = "FAULT" ->
               [playBuzzerSequence([off EXCEPT !.rc.resetHeldSince = 0],
                                   "SND_FAULT", 2, TRUE)
                EXCEPT !.rc.systemLocked = FALSE]

enter(s, newState) ==
    LET s0 == [s EXCEPT !.rc.state = newState, !.rc.enteredAt = millis(s)]
        off == setOutputs(s0, FALSE, FALSE, FALSE, FALSE)
    IN  CASE newState = "STARTUP" ->
               [playBuzzerSequence(
                    [off EXCEPT !.rc.startupCheckIndex = 0,
                                !.rc.lastCheckTime = 0,
                                !.rc.startupComplete = FALSE],
                    "SND_CHIRP", 2, FALSE)
                EXCEPT !.rc.systemLocked = TRUE]
          [] newState = "SPLASH" ->
               [playBuzzerSequence(off, "SND_CHIRP", 2, FALSE)
                EXCEPT !.rc.deadline = Add(millis(s), 5000),
                       !.rc.systemLocked = TRUE]
          [] newState = "READY" ->
               [stopBuzzer(setOutputs(s0, TRUE, FALSE, FALSE, FALSE))
                EXCEPT !.rc.systemLocked = FALSE]
          [] newState = "ARMED" ->
               [playBuzzerSequence(setOutputs(s0, FALSE, TRUE, FALSE, FALSE),
                                   "SND_ARMED", 2, TRUE)
                EXCEPT !.rc.launchHeldSince = 0]
          [] newState = "LAUNCH_COUNTDOWN" ->
               playBuzzerSequence(setOutputs(s0, FALSE, TRUE, FALSE, FALSE),
                                  "SND_COUNTDOWN_SIREN", 2, TRUE)
          [] newState = "LAUNCHING" ->
               playBuzzerSequence(
                   [setOutputs(s0, FALSE, FALSE, TRUE, TRUE)
                    EXCEPT !.rc.deadline = Add(millis(s), RELAY_ON_MS)],
                   "SND_LAUNCH", 1, TRUE)
          [] newState = "COOLDOWN" ->
               stopBuzzer([off EXCEPT !.rc.deadline = Add(millis(s), COOLDOWN_MS)])
          [] newState = "ABORT" ->
               playBuzzerSequence(
                   [off EXCEPT !.rc.deadline = Add(millis(s), ABORT_INHIBIT_MS)],
                   "SND_ABORT", 2, FALSE)
          [] newState = "FAULT" ->
               [playBuzzerSequence([off EXCEPT !.rc.resetHeldSince = 0],
                                   "SND_FAULT", 2, TRUE)
                EXCEPT !.rc.systemLocked = FALSE]

----------------------------------------------------------------------------
(* The per-state handlers of RocketController::update *)

\* updateStartup with a completion hold of 750 ms
updateStartup_ShortHold(s, t) ==
    IF isArmPressed(s) \/ isResetPressed(s) \/ isLaunchPressed(s)
    THEN enter(s, "FAULT")
    ELSE IF Sub(t, s.rc.lastCheckTime) >= STARTUP_CHECK_INTERVAL
    THEN LET s1 == [s EXCEPT !.rc.lastCheckTime = t]
         IN  IF s1.rc.startupCheckIndex < STARTUP_CHECKS_COUNT
             THEN [playBuzzerSequence(s1, "SND_CHECK", 1, FALSE)
                   EXCEPT !.rc.startupCheckIndex = s1.rc.startupCheckIndex + 1]
             ELSE LET s2 == IF ~s1.rc.startupComplete
                            THEN [s1 EXCEPT !.rc.completionTime = t,
                                            !.rc.startupComplete = TRUE]
                            ELSE s1
                  IN  IF Sub(t, s2.rc.completionTime) >= 750
                      THEN enter(s2, "READY")
                      ELSE s2
    ELSE s

\* updateStartup that faults on the arm switch only
updateStartup_ArmOnly(s, t) ==
    IF isArmPressed(s)
    THEN enter(s, "FAULT")
    ELSE IF Sub(t, s.rc.lastCheckTime) >= STARTUP_CHECK_INTERVAL
    THEN LET s1 == [s EXCEPT !.rc.lastCheckTime = t]
         IN  IF s1.rc.startupCheckIndex < STARTUP_CHECKS_COUNT
             THEN [playBuzzerSequence(s1, "SND_CHECK", 1, FALSE)
                   EXCEPT !.rc.startupCheckIndex = s1.rc.startupCheckIndex + 1]
             ELSE LET s2 == IF ~s1.rc.startupComplete
                            THEN [s1 EXCEPT !.rc.completionTime = t,
                                            !.rc.startupComplete = TRUE]
                            ELSE s1
                  IN  IF Sub(t, s2.rc.completionTime) >= 1000
                      THEN enter(s2, "READY")
                      ELSE s2
    ELSE s

\* updateStartup that forgets to mark the self-check complete
updateStartup_NeverComplete(s, t) ==
    IF isArmPressed(s) \/ isResetPressed(s) \/ isLaunchPressed(s)
    THEN enter(s, "FAULT")
    ELSE IF Sub(t, s.rc.lastCheckTime) >= STARTUP_CHECK_INTERVAL
    THEN LET s1 == [s EXCEPT !.rc.lastCheckTime = t]
         IN  IF s1.rc.startupCheckIndex < STARTUP_CHECKS_COUNT
             THEN [playBuzzerSequence(s1, "SND_CHECK", 1, FALSE)
                   EXCEPT !.rc.startupCheckIndex = s1.rc.startupCheckIndex + 1]
             ELSE LET s2 == IF ~s1.rc.startupComplete
                            THEN [s1 EXCEPT !.rc.completionTime = t]
                            ELSE s1
                  IN  IF Sub(t, s2.rc.completionTime) >= 1000
                      THEN enter(s2, "READY")
                      ELSE s2
    ELSE s

updateStartup(s, t) ==
    IF isArmPressed(s) \/ isResetPressed(s) \/ isLaunchPressed(s)
    THEN enter(s, "FAULT")
    ELSE IF Sub(t, s.rc.lastCheckTime) >= STARTUP_CHECK_INTERVAL
    THEN LET s1 == [s EXCEPT !.rc.lastCheckTime = t]
         IN  IF s1.rc.startupCheckIndex < STARTUP_CHECKS_COUNT
             THEN [playBuzzerSequence(s1, "SND_CHECK", 1, FALSE)
                   EXCEPT !.rc.startupCheckIndex = s1.rc.startupCheckIndex + 1]
             ELSE LET s2 == IF ~s1.rc.startupComplete
                            THEN [s1 EXCEPT !.rc.completionTime = t,
                                            !.rc.startupComplete = TRUE]
                            ELSE s1
                  IN  IF Sub(t, s2.rc.completionTime) >= 1000
                      THEN enter(s2, "READY")
                      ELSE s2
    ELSE s

\* updateSplash that leaves one millisecond before the deadline
updateSplash_Early(s, t) ==
    IF AsLong(Sub(Add(t, 1), s.rc.deadline)) >= 0 THEN enter(s, "STARTUP") ELSE s

updateSplash(s, t) ==
    IF AsLong(Sub(t, s.rc.deadline)) >= 0 THEN enter(s, "STARTUP") ELSE s

\* updateReady that raises a fault when launch is read held
updateReady_LaunchFaults(s, t) ==
    IF ~s.rc.systemLocked /\ isArmPressed(s)
    THEN enter(s, "ARMED")
    ELSE IF isLaunchPressed(s) THEN enter(s, "FAULT") ELSE s

\* updateReady that starts the countdown at once when launch is held too
updateReady_SkipsArmed(s, t) ==
    IF ~s.rc.systemLocked /\ isArmPressed(s)
    THEN enter(s, IF isLaunchPressed(s) THEN "LAUNCH_COUNTDOWN" ELSE "ARMED")
    ELSE s

updateReady(s, t) ==
    IF ~s.rc.systemLocked /\ isArmPressed(s) THEN enter(s, "ARMED") ELSE s

\* updateArmed without the 250 ms launch hold
updateArmed_NoHold(s, t) ==
    IF ~s.rc.systemLocked /\ ~isArmPressed(s)
    THEN enter(s, "READY")
    ELSE IF ~s.rc.systemLocked /\ isLaunchPressed(s)
    THEN enter([s EXCEPT !.rc.launchHeldSince = t], "LAUNCH_COUNTDOWN")
    ELSE [s EXCEPT !.rc.launchHeldSince = 0]

\* updateArmed testing the launch hold before the arm switch
updateArmed_LaunchFirst(s, t) ==
    IF ~s.rc.systemLocked /\ isLaunchPressed(s)
    THEN LET s1 == IF s.rc.launchHeldSince = 0
                   THEN [s EXCEPT !.rc.launchHeldSince = t]
                   ELSE s
         IN  IF Sub(t, s1.rc.launchHeldSince) >= 250
             THEN enter(s1, "LAUNCH_COUNTDOWN")
             ELSE IF ~isArmPressed(s1) THEN enter(s1, "READY") ELSE s1
    ELSE IF ~s.rc.systemLocked /\ ~isArmPressed(s)
    THEN enter(s, "READY")
    ELSE [s EXCEPT !.rc.launchHeldSince = 0]

\* updateArmed that keeps the hold timer when launch is read released
updateArmed_KeepsCredit(s, t) ==
    IF ~s.rc.systemLocked /\ ~isArmPressed(s)
    THEN enter(s, "READY")
    ELSE IF ~s.rc.systemLocked /\ isLaunchPressed(s)
    THEN LET s1 == IF s.rc.launchHeldSince = 0
                   THEN [s EXCEPT !.rc.launchHeldSince = t]
                   ELSE s
         IN  IF Sub(t, s1.rc.launchHeldSince) >= 250
             THEN enter(s1, "LAUNCH_COUNTDOWN")
             ELSE s1
    ELSE s

updateArmed(s, t) ==
    IF ~s.rc.systemLocked /\ ~isArmPressed(s)
    THEN enter(s, "READY")
    ELSE IF ~s.rc.systemLocked /\ isLaunchPressed(s)
    THEN LET s1 == IF s.rc.launchHeldSince = 0
                   THEN [s EXCEPT !.rc.launchHeldSince = t]
                   ELSE s
         IN  IF Sub(t, s1.rc.launchHeldSince) >= 250
             THEN enter(s1, "LAUNCH_COUNTDOWN")
             ELSE s1
    ELSE [s EXCEPT !.rc.launchHeldSince = 0]

\* updateLaunchCountdown testing the launch release before the arm interlock
updateLaunchCountdown_AbortFirst(s, t) ==
    IF ~s.rc.systemLocked /\ ~isLaunchPressed(s)
    THEN enter(s, "ABORT")
    ELSE IF ~s.rc.systemLocked /\ ~isArmPressed(s)
    THEN enter(s, "FAULT")
    ELSE IF Sub(t, s.rc.enteredAt) >= HOLD_TO_LAUNCH_MS
    THEN enter(s, "LAUNCHING")
    ELSE s

\* updateLaunchCountdown that does not look at the launch button
updateLaunchCountdown_NoAbort(s, t) ==
    IF ~s.rc.systemLocked /\ ~isArmPressed(s)
    THEN enter(s, "FAULT")
    ELSE IF Sub(t, s.rc.enteredAt) >= HOLD_TO_LAUNCH_MS
    THEN enter(s, "LAUNCHING")
    ELSE s

\* updateLaunchCountdown with > for >= in the hold test
updateLaunchCountdown_Strict(s, t) ==
    IF ~s.rc.systemLocked /\ ~isArmPressed(s)
    THEN enter(s, "FAULT")
    ELSE IF ~s.rc.systemLocked /\ ~isLaunchPressed(s)
    THEN enter(s, "ABORT")
    ELSE IF Sub(t, s.rc.enteredAt) > HOLD_TO_LAUNCH_MS
    THEN enter(s, "LAUNCHING")
    ELSE s

updateLaunchCountdown(s, t) ==
    IF ~s.rc.systemLocked /\ ~isArmPressed(s)
    THEN enter(s, "FAULT")
    ELSE IF ~s.rc.systemLocked /\ ~isLaunchPressed(s)
    THEN enter(s, "ABORT")
    ELSE IF Sub(t, s.rc.enteredAt) >= HOLD_TO_LAUNCH_MS
    THEN enter(s, "LAUNCHING")
    ELSE s

\* updateLaunching with > for >= in the deadline test
updateLaunching_Strict(s, t) ==
    IF AsLong(Sub(t, s.rc.deadline)) > 0
    THEN enter(setOutputs(s, FALSE, FALSE, FALSE, FALSE), "COOLDOWN")
    ELSE s

updateLaunching(s, t) ==
    IF AsLong(Sub(t, s.rc.deadline)) >= 0
    THEN enter(setOutputs(s, FALSE, FALSE, FALSE, FALSE), "COOLDOWN")
    ELSE s

\* updateCooldown returning to READY when the controls are idle
updateCooldown_ToReady(s, t) ==
    IF AsLong(Sub(t, s.rc.deadline)) >= 0
    THEN IF isArmPressed(s) THEN enter(s, "FAULT") ELSE enter(s, "READY")
    ELSE s

\* updateCooldown with > for >= in the deadline test
updateCooldown_Strict(s, t) ==
    IF AsLong(Sub(t, s.rc.deadline)) > 0 THEN enter(s, "FAULT") ELSE s

updateCooldown(s, t) ==
    IF AsLong(Sub(t, s.rc.deadline)) >= 0 THEN enter(s, "FAULT") ELSE s

\* updateAbort with > for >= in the deadline test
updateAbort_Strict(s, t) ==
    IF AsLong(Sub(t, s.rc.deadline)) > 0
    THEN IF isArmPressed(s) THEN enter(s, "ARMED") ELSE enter(s, "READY")
    ELSE s

updateAbort(s, t) ==
    IF AsLong(Sub(t, s.rc.deadline)) >= 0
    THEN IF isArmPressed(s) THEN enter(s, "ARMED") ELSE enter(s, "READY")
    ELSE s

\* updateFault that does not look at the arm switch
updateFault_NoArmCheck(s, t) ==
    IF ~s.rc.systemLocked
    THEN IF isResetPressed(s)
         THEN LET s1 == IF s.rc.resetHeldSince = 0
                        THEN [s EXCEPT !.rc.resetHeldSince = t]
                        ELSE s
              IN  IF Sub(t, s1.rc.resetHeldSince) >= RESET_HOLD_MS
                     /\ ~globalFaultActive(s1)
                  THEN enter(s1, "READY")
                  ELSE s1
         ELSE [s EXCEPT !.rc.resetHeldSince = 0]
    ELSE [s EXCEPT !.rc.resetHeldSince = 0]

\* updateFault that keeps the hold timer when reset is read released
updateFault_KeepsCredit(s, t) ==
    IF ~s.rc.systemLocked /\ ~isArmPressed(s)
    THEN IF isResetPressed(s)
         THEN LET s1 == IF s.rc.resetHeldSince = 0
                        THEN [s EXCEPT !.rc.resetHeldSince = t]
                        ELSE s
              IN  IF Sub(t, s1.rc.resetHeldSince) >= RESET_HOLD_MS
                     /\ ~globalFaultActive(s1)
                  THEN enter(s1, "READY")
                  ELSE s1
         ELSE s
    ELSE [s EXCEPT !.rc.resetHeldSince = 0]

\* updateFault with > for >= in the reset hold test
updateFault_Strict(s, t) ==
    IF ~s.rc.systemLocked /\ ~isArmPressed(s)
    THEN IF isResetPressed(s)
         THEN LET s1 == IF s.rc.resetHeldSince = 0
                        THEN [s EXCEPT !.rc.resetHeldSince = t]
                        ELSE s
              IN  IF Sub(t, s1.rc.resetHeldSince) > RESET_HOLD_MS
                     /\ ~globalFaultActive(s1)
                  THEN enter(s1, "READY")
                  ELSE s1
         ELSE [s EXCEPT !.rc.resetHeldSince = 0]
    ELSE [s EXCEPT !.rc.resetHeldSince = 0]

\* updateFault that restarts the reset hold on every tick
updateFault_Restarts(s, t) ==
    IF ~s.rc.systemLocked /\ ~isArmPressed(s)
    THEN IF isResetPressed(s)
         THEN LET s1 == [s EXCEPT !.rc.resetHeldSince = t]
              IN  IF Sub(t, s1.rc.resetHeldSince) >= RESET_HOLD_MS
                     /\ ~globalFaultActive(s1)
                  THEN enter(s1, "READY")
                  ELSE s1
         ELSE [s EXCEPT !.rc.resetHeldSince = 0]
    ELSE [s EXCEPT !.rc.resetHeldSince = 0]

updateFault(s, t) ==
    IF ~s.rc.systemLocked /\ ~isArmPressed(s)
    THEN IF isResetPressed(s)
         THEN LET s1 == IF s.rc.resetHeldSince = 0
                        THEN [s EXCEPT !.rc.resetHeldSince = t]
                        ELSE s
              IN  IF Sub(t, s1.rc.resetHeldSince) >= RESET_HOLD_MS
                     /\ ~globalFaultActive(s1)
                  THEN enter(s1, "READY")
                  ELSE s1
         ELSE [s EXCEPT !.rc.resetHeldSince = 0]
    ELSE [s EXCEPT !.rc.resetHeldSince = 0]

----------------------------------------------------------------------------
(* RocketController::updateBuzzer *)

\* updateBuzzer that takes a gap only when it is longer than the note
updateBuzzer_SkipsGap(s, t) ==
    LET b == s.rc.buzzer IN
    IF ~b.active \/ b.seq = "nullptr" \/ b.len = 0
    THEN s
    ELSE LET n == BuzzSeq(b.seq)[b.idx + 1] IN
         IF b.stepDeadline = 0
         THEN IF ~b.inGap
              THEN [(IF n.freq > 0 THEN tone(s, n.freq) ELSE noTone(s))
                    EXCEPT !.rc.buzzer.stepDeadline = Add(t, n.ms)]
              ELSE [noTone(s) EXCEPT !.rc.buzzer.stepDeadline = Add(t, n.gap_ms)]
         ELSE IF AsLong(Sub(t, b.stepDeadline)) >= 0
         THEN IF ~b.inGap /\ n.gap_ms > n.ms
              THEN [s EXCEPT !.rc.buzzer.inGap = TRUE,
                             !.rc.buzzer.stepDeadline = 0]
              ELSE LET s1 == [s EXCEPT !.rc.buzzer.inGap = FALSE,
                                       !.rc.buzzer.idx = b.idx + 1,
                                       !.rc.buzzer.stepDeadline = 0]
                   IN  IF s1.rc.buzzer.idx >= s1.rc.buzzer.len
                       THEN IF s1.rc.buzzer.loop
                            THEN [s1 EXCEPT !.rc.buzzer.idx = 0]
                            ELSE noTone([s1 EXCEPT !.rc.buzzer.active = FALSE])
                       ELSE s1
         ELSE s

\* updateBuzzer that leaves a phase one millisecond before its deadline
updateBuzzer_Early(s, t) ==
    LET b == s.rc.buzzer IN
    IF ~b.active \/ b.seq = "nullptr" \/ b.len = 0
    THEN s
    ELSE LET n == BuzzSeq(b.seq)[b.idx + 1] IN
         IF b.stepDeadline = 0
         THEN IF ~b.inGap
              THEN [(IF n.freq > 0 THEN tone(s, n.freq) ELSE noTone(s))
                    EXCEPT !.rc.buzzer.stepDeadline = Add(t, n.ms)]
              ELSE [noTone(s) EXCEPT !.rc.buzzer.stepDeadline = Add(t, n.gap_ms)]
         ELSE IF AsLong(Sub(Add(t, 1), b.stepDeadline)) >= 0
         THEN IF ~b.inGap /\ n.gap_ms > 0
              THEN [s EXCEPT !.rc.buzzer.inGap = TRUE,
                             !.rc.buzzer.stepDeadline = 0]
              ELSE LET s1 == [s EXCEPT !.rc.buzzer.inGap = FALSE,
                                       !.rc.buzzer.idx = b.idx + 1,
                                       !.rc.buzzer.stepDeadline = 0]
                   IN  IF s1.rc.buzzer.idx >= s1.rc.buzzer.len
                       THEN IF s1.rc.buzzer.loop
                            THEN [s1 EXCEPT !.rc.buzzer.idx = 0]
                            ELSE noTone([s1 EXCEPT !.rc.buzzer.active = FALSE])
                       ELSE s1
         ELSE s

\* updateBuzzer that ends a looping sequence after its last note
updateBuzzer_LoopEnds(s, t) ==
    LET b == s.rc.buzzer IN
    IF ~b.active \/ b.seq = "nullptr" \/ b.len = 0
    THEN s
    ELSE LET n == BuzzSeq(b.seq)[b.idx + 1] IN
         IF b.stepDeadline = 0
         THEN IF ~b.inGap
              THEN [(IF n.freq > 0 THEN tone(s, n.freq) ELSE noTone(s))
                    EXCEPT !.rc.buzzer.stepDeadline = Add(t, n.ms)]
              ELSE [noTone(s) EXCEPT !.rc.buzzer.stepDeadline = Add(t, n.gap_ms)]
         ELSE IF AsLong(Sub(t, b.stepDeadline)) >= 0
         THEN IF ~b.inGap /\ n.gap_ms > 0
              THEN [s EXCEPT !.rc.buzzer.inGap = TRUE,
                             !.rc.buzzer.stepDeadline = 0]
              ELSE LET s1 == [s EXCEPT !.rc.buzzer.inGap = FALSE,
                                       !.rc.buzzer.idx = b.idx + 1,
                                       !.rc.buzzer.stepDeadline = 0]
                   IN  IF s1.rc.buzzer.idx >= s1.rc.buzzer.len
                       THEN noTone([s1 EXCEPT !.rc.buzzer.active = FALSE])
                       ELSE s1
         ELSE s

updateBuzzer(s, t) ==
    LET b == s.rc.buzzer IN
    IF ~b.active \/ b.seq = "nullptr" \/ b.len = 0
    THEN s
    ELSE LET n == BuzzSeq(b.seq)[b.idx + 1] IN
         IF b.stepDeadline = 0
         THEN IF ~b.inGap
              THEN [(IF n.freq > 0 THEN tone(s, n.freq) ELSE noTone(s))
                    EXCEPT !.rc.buzzer.stepDeadline = Add(t, n.ms)]
              ELSE [noTone(s) EXCEPT !.rc.buzzer.stepDeadline = Add(t, n.gap_ms)]
         ELSE IF AsLong(Sub(t, b.stepDeadline)) >= 0
         THEN IF ~b.inGap /\ n.gap_ms > 0
              THEN [s EXCEPT !.rc.buzzer.inGap = TRUE,
                             !.rc.buzzer.stepDeadline = 0]
              ELSE LET s1 == [s EXCEPT !.rc.buzzer.inGap = FALSE,
                                       !.rc.buzzer.idx = b.idx + 1,
                                       !.rc.buzzer.stepDeadline = 0]
                   IN  IF s1.rc.buzzer.idx >= s1.rc.buzzer.len
                       THEN IF s1.rc.buzzer.loop
                            THEN [s1 EXCEPT !.rc.buzzer.idx = 0]
                            ELSE noTone([s1 EXCEPT !.rc.buzzer.active = FALSE])
                       ELSE s1
         ELSE s

----------------------------------------------------------------------------
(* RocketController::update *)

dispatch(s, t) ==
    CASE s.rc.state = "STARTUP" -> updateStartup(s, t)
      [] s.rc.state = "SPLASH" -> updateSplash(s, t)
      [] s.rc.state = "READY" -> updateReady(s, t)
      [] s.rc.state = "ARMED" -> updateArmed(s, t)
      [] s.rc.state = "LAUNCH_COUNTDOWN" -> updateLaunchCountdown(s, t)
      [] s.rc.state = "LAUNCHING" -> updateLaunching(s, t)
      [] s.rc.state = "COOLDOWN" -> updateCooldown(s, t)
      [] s.rc.state = "ABORT" -> updateAbort(s, t)
      [] s.rc.state = "FAULT" -> updateFault(s, t)

\* update without the global-fault override
update_NoOverride(s, t) == dispatch(updateBuzzer(s, t), t)

update(s, t) ==
    LET s1 == updateBuzzer(s, t)
    IN  IF s1.rc.state # "FAULT" /\ globalFaultActive(s1)
        THEN enter(s1, "FAULT")
        ELSE dispatch(s1, t)

----------------------------------------------------------------------------
(* History variables: what an observer of the ticks has seen.  Times are   *)
(* milliseconds since boot, not wrapped.                                   *)
(*   ticks       number of ticks so far                                    *)
(*   elapsed     time of the last tick                                     *)
(*   prev        rc.state before the last tick ("NONE" before any tick)    *)
(*   entryT      time of the tick that entered rc.state                    *)
(*   prevEntryT  time of the tick that entered prev                        *)
(*   armHeld     in ARMED, LAUNCH_COUNTDOWN and on the tick entering       *)
(*               LAUNCHING: every tick since (and including) the one that  *)
(*               last entered ARMED read arm engaged                       *)
(*   launchFrom  time of the first tick of the present unbroken run of     *)
(*               ticks handled in ARMED or LAUNCH_COUNTDOWN that read      *)
(*               launch held; -1 if the last tick was not such a tick      *)
(*   launchBroken  during the present stay in ARMED (and on the tick that  *)
(*               leaves it for LAUNCH_COUNTDOWN) a run of launch-held      *)
(*               ticks was ended by a tick that read launch released       *)
(*   cdAt        time of the tick that entered LAUNCH_COUNTDOWN, kept      *)
(*               through the tick that leaves it for LAUNCHING; else -1    *)
(*   cdFrom      the state LAUNCH_COUNTDOWN was entered from               *)
(*   resetFrom   time of the first tick of the present unbroken run of     *)
(*               ticks handled in FAULT that read reset held with arm      *)
(*               disengaged; -1 if the last tick was not such a tick       *)
(*   resetBroken  during the present stay in FAULT (and on the tick that   *)
(*               leaves it) a run of reset-held ticks was ended by a tick  *)
(*               that read reset released or arm engaged                   *)
(*   faultHeld   every tick since (and including) the one that entered     *)
(*               FAULT read reset held with arm disengaged                 *)
(*   trail       the states entered since (and including) the most recent  *)
(*               entry into LAUNCHING, emptied when FAULT is left          *)
(*   fired       LAUNCHING has been entered at some tick                   *)
(*   prevLocked  rc.systemLocked before the last tick                      *)
(*   gfault      what globalFaultActive() returned during the last tick    *)
(*   ignored     the last tick kept the state although it read active      *)
(*               launch and reset (in READY), or arm, reset and launch (in *)
(*               LAUNCHING, COOLDOWN or ABORT)                             *)
(*   enters      number of direct calls of enter() by the driver so far    *)
(*   direct      the last step was a direct call of enter(), not a tick    *)
(***************************************************************************)

\* what is remembered of the sequencer: the last call (play, stop, tick) and
\* the arguments of the last play; the phase in progress (tone, gap; idle
\* between phases; done after the last note), its start time and length;
\* the phases started since the last play, as <<index, phase>>; the tone
\* starts of the present visit to a note; whether a phase was ever left
\* before start + length (early), whether a note was ever left with a
\* number of tone starts other than one (none for frequency 0) (miscount);
\* stopped: stop was called and play was not since; cut: that stop came with
\* a phase in progress; replaced: the last play came with one in progress
BuzzHistory0 ==
    [last |-> "none", args |-> <<"nullptr", 0, FALSE>>, phase |-> "idle",
     at |-> 0, dur |-> 0, order |-> <<>>, starts |-> 0, early |-> FALSE,
     miscount |-> FALSE, late |-> FALSE, stopped |-> FALSE, cut |-> FALSE,
     replaced |-> FALSE, plays |-> 0, stops |-> 0]

History0 ==
    [ticks |-> 0, elapsed |-> 0, prev |-> "NONE", entryT |-> 0, prevEntryT |-> 0,
     armHeld |-> FALSE, launchFrom |-> -1, launchBroken |-> FALSE,
     cdAt |-> -1, cdFrom |-> "NONE",
     resetFrom |-> -1, resetBroken |-> FALSE, faultHeld |-> FALSE,
     trail |-> <<>>, fired |-> FALSE,
     prevLocked |-> FALSE, gfault |-> FALSE, ignored |-> FALSE,
     enters |-> 0, direct |-> FALSE, twin |-> <<>>, zero |-> FALSE,
     bz |-> BuzzHistory0]

\* c, c2: the controller before and after the tick; e: the time of the tick;
\* in, gf: what the tick read
History(c, c2, e, in, gf) ==
    LET pre == c.state
        post == c2.state
        arm == in.arm
        reset == in.reset
        launch == in.launch
        run == {"ARMED", "LAUNCH_COUNTDOWN"} IN
    [ticks |-> h.ticks + 1,
     elapsed |-> e,
     prev |-> pre,
     entryT |-> IF post # pre THEN e ELSE h.entryT,
     prevEntryT |-> h.entryT,
     armHeld |->
        IF post = "ARMED" /\ pre # "ARMED" THEN arm
        ELSE IF pre \in run /\ post \in run \cup {"LAUNCHING"}
        THEN h.armHeld /\ arm
        ELSE FALSE,
     launchFrom |->
        IF pre \in run /\ launch
        THEN (IF h.launchFrom = -1 THEN e ELSE h.launchFrom)
        ELSE -1,
     launchBroken |->
        IF pre = "ARMED" /\ post \in run
        THEN h.launchBroken \/ (h.launchFrom >= 0 /\ ~launch)
        ELSE FALSE,
     cdAt |->
        IF post = "LAUNCH_COUNTDOWN"
        THEN (IF pre # "LAUNCH_COUNTDOWN" THEN e ELSE h.cdAt)
        ELSE IF post = "LAUNCHING" /\ pre = "LAUNCH_COUNTDOWN" THEN h.cdAt
        ELSE -1,
     cdFrom |->
        IF post = "LAUNCH_COUNTDOWN"
        THEN (IF pre # "LAUNCH_COUNTDOWN" THEN pre ELSE h.cdFrom)
        ELSE IF post = "LAUNCHING" /\ pre = "LAUNCH_COUNTDOWN" THEN h.cdFrom
        ELSE "NONE",
     resetFrom |->
        IF pre = "FAULT" /\ reset /\ ~arm
        THEN (IF h.resetFrom = -1 THEN e ELSE h.resetFrom)
        ELSE -1,
     resetBroken |->
        IF pre = "FAULT"
        THEN h.resetBroken \/ (h.resetFrom >= 0 /\ ~(reset /\ ~arm))
        ELSE FALSE,
     faultHeld |->
        IF post = "FAULT" /\ pre # "FAULT" THEN reset /\ ~arm
        ELSE IF pre = "FAULT" THEN h.faultHeld /\ reset /\ ~arm
        ELSE FALSE,
     trail |->
        IF post = pre THEN h.trail
        ELSE IF h.trail = <<>> THEN (IF post = "LAUNCHING" THEN <<post>> ELSE <<>>)
        ELSE IF pre = "FAULT" THEN <<>>
        ELSE Append(h.trail, post),
     fired |-> h.fired \/ (post = "LAUNCHING" /\ pre # "LAUNCHING"),
     prevLocked |-> c.systemLocked,
     gfault |-> gf,
     ignored |->
        /\ post = pre
        /\ \/ pre = "READY" /\ launch /\ reset
           \/ pre \in {"LAUNCHING", "COOLDOWN", "ABORT"} /\ arm /\ reset /\ launch,
     enters |-> h.enters,
     direct |-> FALSE,
     twin |-> h.twin,
     zero |-> h.zero,
     bz |-> h.bz]

\* after a direct call of enter(): the runs of ticks the history follows are
\* over
HistoryEnter(c, c2) ==
    [History0 EXCEPT !.ticks = h.ticks,
                     !.elapsed = h.elapsed,
                     !.prev = c.state,
                     !.entryT = h.elapsed,
                     !.prevEntryT = h.entryT,
                     !.fired = h.fired \/ c2.state = "LAUNCHING",
                     !.prevLocked = c.systemLocked,
                     !.enters = h.enters + 1,
                     !.direct = TRUE]

----------------------------------------------------------------------------
(* The firmware of main.cpp: setup() and loop() on the board, with the      *)
(* Arduino clock, the arm switch, the launch and the reset button and the   *)
(* pins of the two arm LEDs, the countdown lamp and the relay.  f is the    *)
(* record of the globals, the clock and the pins.  The LCD, the tones, the  *)
(* five progress LEDs and the button feedback text are outputs that no      *)
(* decision reads, and are left out; a call that blocks in delay() advances *)
(* the clock by as much.                                                    *)

NOT_ARMED_LED_PIN == 4
ARMED_LED_PIN == 1
LAUNCH_IN_COUNTDOWN_PIN == 7
LAUNCH_IN_LAUNCH_PIN == 8
IGNIGHTER_RELAY_PIN == 8
MainPins == {NOT_ARMED_LED_PIN, ARMED_LED_PIN, LAUNCH_IN_COUNTDOWN_PIN,
             LAUNCH_IN_LAUNCH_PIN, IGNIGHTER_RELAY_PIN}

LCD_INIT_DELAY == 200
MAIN_RESET_HOLD_MS == 5000
COUNTDOWN_MS == 5000
LOOP_SETTLE_MS == 10
BLINK_ON_MS == 320
BLINK_OFF_MS == 120
CELEB_BLINK_MS == 160
CELEB_CYCLES == 3
SPLASH_MS == 5000
SELFTEST_MS == 15000
IgniterOnMs == 10000

BootPhase == {"SPLASH", "SELFTEST", "READY_SHOWN", "RUN"}

\* struct LaunchState with its default member initialisers
LaunchState0 ==
    [armed |-> FALSE, countdownActive |-> FALSE, countdownStartMs |-> 0,
     launchLatched |-> FALSE, resetActive |-> FALSE, resetHoldStartMs |-> 0,
     resetLightsOverride |-> FALSE, armBlinkOverride |-> FALSE,
     armBlinkState |-> FALSE, armBlinkLastToggle |-> 0,
     celebActive |-> FALSE, celebStep |-> 0, celebLastToggle |-> 0,
     resetReminderActive |-> FALSE, resetReminderStartMs |-> 0,
     lastReminderPlay |-> 0, igniterRelayActive |-> FALSE,
     igniterRelayStartMs |-> 0, activeLaunchLockout |-> FALSE]

\* the board at power-up: the globals as initialised, the clock at 0, the
\* pins low; in is what the inputs read during the current loop() and calls
\* the functions of interest that it has called
PowerUp ==
    [millis |-> 0, bootPhase |-> "SPLASH", bootPhaseStart |-> 0,
     st |-> LaunchState0, pins |-> [p \in MainPins |-> LOW],
     lastLcdUpdate |-> 0, lastSirenUpdate |-> 0,
     in |-> [arm |-> FALSE, reset |-> FALSE, launch |-> FALSE], calls |-> {}]

delay(f, ms) == [f EXCEPT !.millis = Add(@, ms)]
pinWrite(f, pin, level) == [f EXCEPT !.pins[pin] = level]
called(f, name) == [f EXCEPT !.calls = @ \cup {name}]

read_armed(f) == f.in.arm
read_launchBtn(f) == f.in.launch
read_resetBtn(f) == f.in.reset

buzzer_error(f) == delay(f, 150)
buzzer_success(f) == delay(delay(f, 100), 100)
buzzer_warning_siren(f) == delay(delay(f, 50), 50)
buzzer_ready(f) == delay(delay(f, 100), 100)
buzzer_reset_reminder(f) == delay(delay(delay(delay(f, 100), 100), 100), 200)

setAllLights(f, level) ==
    LET f1 == pinWrite(f, ARMED_LED_PIN, level)
        f2 == pinWrite(f1, NOT_ARMED_LED_PIN, level)
        f3 == pinWrite(f2, LAUNCH_IN_COUNTDOWN_PIN, level)
    IN  IF ~f3.st.igniterRelayActive
        THEN pinWrite(f3, LAUNCH_IN_LAUNCH_PIN, level)
        ELSE f3

start_reset_reminder_loop(f) ==
    buzzer_reset_reminder([f EXCEPT !.st.resetReminderActive = TRUE,
                                    !.st.resetReminderStartMs = f.millis,
                                    !.st.lastReminderPlay = f.millis])

activate_igniter_relay(f) == pinWrite(f, IGNIGHTER_RELAY_PIN, HIGH)

deactivate_igniter_relay(f) ==
    IF ~f.st.igniterRelayActive THEN pinWrite(f, IGNIGHTER_RELAY_PIN, LOW) ELSE f

start_igniter_relay(f) ==
    LET f1 == [f EXCEPT !.st.igniterRelayActive = TRUE,
                        !.st.igniterRelayStartMs = f.millis,
                        !.st.activeLaunchLockout = TRUE]
    IN  called(pinWrite(activate_igniter_relay(f1), IGNIGHTER_RELAY_PIN, HIGH),
               "start_igniter_relay")

set_armed_leds(f, armed) ==
    IF f.st.launchLatched /\ ~f.st.resetLightsOverride /\ ~f.st.celebActive
    THEN pinWrite(pinWrite(f, ARMED_LED_PIN, LOW), NOT_ARMED_LED_PIN, LOW)
    ELSE pinWrite(pinWrite(f, ARMED_LED_PIN, IF armed THEN HIGH ELSE LOW),
                  NOT_ARMED_LED_PIN, IF armed THEN LOW ELSE HIGH)

apply_arm_blink_override(f, nowMs) ==
    IF ~f.st.armBlinkOverride \/ f.st.resetLightsOverride \/ f.st.celebActive
    THEN f
    ELSE LET interval == IF f.st.armBlinkState THEN BLINK_ON_MS ELSE BLINK_OFF_MS IN
         IF Sub(nowMs, f.st.armBlinkLastToggle) >= interval
         THEN LET f1 == [f EXCEPT !.st.armBlinkLastToggle = nowMs,
                                  !.st.armBlinkState = ~@]
                  level == IF f1.st.armBlinkState THEN HIGH ELSE LOW
              IN  pinWrite(pinWrite(f1, ARMED_LED_PIN, level),
                           NOT_ARMED_LED_PIN, level)
         ELSE f

reset_launch_indicators(f) ==
    LET f1 == pinWrite([f EXCEPT !.st.countdownActive = FALSE],
                       LAUNCH_IN_COUNTDOWN_PIN, LOW)
    IN  IF ~f1.st.igniterRelayActive
        THEN pinWrite(f1, LAUNCH_IN_LAUNCH_PIN, LOW)
        ELSE f1

\* the board after setup()
setup ==
    LET f1 == delay(delay(delay(PowerUp, LCD_INIT_DELAY), 100), 50)
        f2 == delay(delay(f1, 1500), 100)
        f3 == [f2 EXCEPT !.bootPhaseStart = 0, !.st.armed = FALSE]
    IN  reset_launch_indicators(pinWrite(f3, IGNIGHTER_RELAY_PIN, LOW))

start_celebration(f, nowMs) ==
    LET f1 == [f EXCEPT !.st.celebActive = TRUE, !.st.celebStep = 0,
                        !.st.celebLastToggle = nowMs]
    IN  called(buzzer_success(setAllLights(f1, LOW)), "start_celebration")

update_celebration(f, nowMs) ==
    IF ~f.st.celebActive THEN f
    ELSE IF Sub(nowMs, f.st.celebLastToggle) >= CELEB_BLINK_MS
    THEN LET on == (f.st.celebStep % 2) = 0
             f1 == setAllLights([f EXCEPT !.st.celebLastToggle = nowMs],
                                IF on THEN HIGH ELSE LOW)
             f2 == [f1 EXCEPT !.st.celebStep = @ + 1]
         IN  IF f2.st.celebStep >= CELEB_CYCLES * 2
             THEN LET f3 == [f2 EXCEPT !.st.celebActive = FALSE,
                                       !.st.launchLatched = FALSE,
                                       !.st.countdownActive = FALSE,
                                       !.st.resetActive = FALSE,
                                       !.st.resetLightsOverride = FALSE,
                                       !.st.armBlinkOverride = FALSE]
                      f4 == reset_launch_indicators(f3)
                      f5 == [f4 EXCEPT !.st.armed = FALSE]
                      f6 == set_armed_leds(f5, f5.st.armed)
                  IN  called([f6 EXCEPT !.bootPhase = "RUN"], "celebration_done")
             ELSE f2
    ELSE f

update_reset_fsm(f, nowMs) ==
    IF f.bootPhase # "RUN" \/ f.st.celebActive \/ f.st.activeLaunchLockout
    THEN f
    ELSE LET resetHeld == read_resetBtn(f) IN
    IF ~f.st.launchLatched
    THEN LET f1 == IF f.st.resetActive \/ f.st.resetLightsOverride
                   THEN set_armed_leds([f EXCEPT !.st.resetActive = FALSE,
                                                 !.st.resetLightsOverride = FALSE],
                                       f.st.armed)
                   ELSE f
         IN  IF f1.st.armBlinkOverride
             THEN set_armed_leds([f1 EXCEPT !.st.armBlinkOverride = FALSE],
                                 f1.st.armed)
             ELSE f1
    ELSE IF f.st.armed
    THEN IF resetHeld
         THEN IF ~f.st.armBlinkOverride
              THEN LET f1 == [f EXCEPT !.st.armBlinkOverride = TRUE,
                                       !.st.armBlinkState = TRUE,
                                       !.st.armBlinkLastToggle = nowMs]
                       f2 == pinWrite(pinWrite(f1, ARMED_LED_PIN, HIGH),
                                      NOT_ARMED_LED_PIN, HIGH)
                   IN  buzzer_error(f2)
              ELSE f
         ELSE IF f.st.armBlinkOverride
              THEN set_armed_leds([f EXCEPT !.st.armBlinkOverride = FALSE],
                                  f.st.armed)
              ELSE f
    ELSE LET f1 == IF f.st.armBlinkOverride
                   THEN set_armed_leds([f EXCEPT !.st.armBlinkOverride = FALSE],
                                       f.st.armed)
                   ELSE f
         IN
         IF resetHeld
         THEN IF ~f1.st.resetActive
              THEN LET f2 == [f1 EXCEPT !.st.resetActive = TRUE,
                                        !.st.resetHoldStartMs = nowMs,
                                        !.st.resetLightsOverride = TRUE]
                   IN  [setAllLights(f2, HIGH)
                        EXCEPT !.st.resetReminderActive = FALSE]
              ELSE LET f2 == IF ~f1.st.celebActive
                             THEN setAllLights(f1, HIGH) ELSE f1
                       elapsed == Sub(nowMs, f2.st.resetHoldStartMs)
                   IN  IF elapsed >= MAIN_RESET_HOLD_MS
                       THEN start_celebration(
                                [f2 EXCEPT !.st.resetActive = FALSE,
                                           !.st.resetLightsOverride = FALSE],
                                nowMs)
                       ELSE f2
         ELSE IF f1.st.resetActive
              THEN set_armed_leds([f1 EXCEPT !.st.resetActive = FALSE,
                                             !.st.resetLightsOverride = FALSE],
                                  f1.st.armed)
              ELSE f1

update_launch_fsm(f, nowMs) ==
    IF \/ f.st.launchLatched \/ f.st.celebActive \/ f.st.resetLightsOverride
       \/ f.st.activeLaunchLockout \/ f.bootPhase # "RUN"
    THEN f
    ELSE LET buttonHeld == read_launchBtn(f) IN
    IF ~f.st.armed
    THEN reset_launch_indicators(f)
    ELSE LET f1 == IF buttonHeld /\ ~f.st.countdownActive
                   THEN called(pinWrite([f EXCEPT !.st.countdownActive = TRUE,
                                                  !.st.countdownStartMs = nowMs],
                                        LAUNCH_IN_COUNTDOWN_PIN, HIGH),
                               "countdown_start")
                   ELSE f
         IN
         IF buttonHeld /\ f1.st.countdownActive /\ ~f1.st.launchLatched
         THEN LET elapsed == Sub(nowMs, f1.st.countdownStartMs)
                  f2 == IF Sub(nowMs, f1.lastLcdUpdate) >= 200
                        THEN buzzer_warning_siren(
                                 [f1 EXCEPT !.lastLcdUpdate = nowMs])
                        ELSE f1
              IN  IF elapsed >= COUNTDOWN_MS
                  THEN LET f3 == [f2 EXCEPT !.st.countdownActive = FALSE,
                                            !.st.launchLatched = TRUE]
                           f4 == pinWrite(f3, LAUNCH_IN_COUNTDOWN_PIN, LOW)
                           f5 == pinWrite(f4, LAUNCH_IN_LAUNCH_PIN, HIGH)
                           f6 == set_armed_leds(f5, f5.st.armed)
                       IN  start_igniter_relay(start_reset_reminder_loop(f6))
                  ELSE f2
         ELSE IF f1.st.countdownActive /\ ~f1.st.launchLatched
         THEN pinWrite([f1 EXCEPT !.st.countdownActive = FALSE],
                       LAUNCH_IN_COUNTDOWN_PIN, LOW)
         ELSE f1

lcd_show_splash(f) == delay(f, 100)

lcd_show_ready(f) ==
    LET f1 == [f EXCEPT !.st.armed = read_armed(f)]
    IN  buzzer_ready(set_armed_leds(f1, f1.st.armed))

update_boot_fsm(f, t) ==
    CASE f.bootPhase = "SPLASH" ->
             LET f1 == IF f.bootPhaseStart = 0
                       THEN lcd_show_splash([f EXCEPT !.bootPhaseStart = t])
                       ELSE f
             IN  IF Sub(t, f1.bootPhaseStart) >= SPLASH_MS
                 THEN [f1 EXCEPT !.bootPhase = "SELFTEST", !.bootPhaseStart = t]
                 ELSE f1
      [] f.bootPhase = "SELFTEST" ->
             IF Sub(t, f.bootPhaseStart) >= SELFTEST_MS
             THEN lcd_show_ready([f EXCEPT !.bootPhase = "READY_SHOWN",
                                           !.bootPhaseStart = t])
             ELSE f
      [] f.bootPhase = "READY_SHOWN" -> [f EXCEPT !.bootPhase = "RUN"]
      [] OTHER -> f

\* the calls of loop() after the boot sequence and the reading of the switch,
\* in their order; t is the now of the loop
loop_indicators(f) ==
    IF /\ ~f.st.resetLightsOverride /\ ~f.st.celebActive
       /\ ~f.st.activeLaunchLockout /\ f.bootPhase = "RUN"
    THEN set_armed_leds(f, f.st.armed)
    ELSE f

loop_siren(f, t) ==
    IF /\ f.st.armed /\ ~f.st.countdownActive
       /\ ~f.st.launchLatched /\ f.bootPhase = "RUN"
       /\ Sub(t, f.lastSirenUpdate) >= 500
    THEN buzzer_warning_siren([f EXCEPT !.lastSirenUpdate = t])
    ELSE f

loop_reminder(f, t) ==
    IF f.st.resetReminderActive
    THEN IF Sub(t, f.st.resetReminderStartMs) >= 10000
         THEN [f EXCEPT !.st.resetReminderActive = FALSE]
         ELSE IF Sub(t, f.st.lastReminderPlay) >= 2000
         THEN buzzer_reset_reminder([f EXCEPT !.st.lastReminderPlay = t])
         ELSE f
    ELSE f

loop_relay(f, t) ==
    IF f.st.igniterRelayActive
    THEN LET launchElapsed == Sub(t, f.st.igniterRelayStartMs)
             g1 == pinWrite(f, IGNIGHTER_RELAY_PIN, HIGH)
         IN  IF launchElapsed >= IgniterOnMs
             THEN deactivate_igniter_relay(
                      [g1 EXCEPT !.st.igniterRelayActive = FALSE,
                                 !.st.activeLaunchLockout = FALSE])
             ELSE g1
    ELSE f

\* one loop() during which the inputs read as in; each S is the one board
\* that the call before it leaves
loopOnce(f0, in) ==
    LET t == f0.millis
        S1 == {update_boot_fsm([f0 EXCEPT !.in = in, !.calls = {}], t)}
        S2 == {[f EXCEPT !.st.armed = read_armed(f)] : f \in S1}
        S3 == {loop_indicators(f) : f \in S2}
        S4 == {update_launch_fsm(f, t) : f \in S3}
        S5 == {update_reset_fsm(f, t) : f \in S4}
        S6 == {apply_arm_blink_override(f, t) : f \in S5}
        S7 == {loop_siren(f, t) : f \in S6}
        S8 == {update_celebration(f, t) : f \in S7}
        S9 == {loop_reminder(f, t) : f \in S8}
        S10 == {loop_relay(f, t) : f \in S9}
    IN  CHOOSE f \in {delay(g, LOOP_SETTLE_MS) : g \in S10} : TRUE

\* the history of the firmware's loops: loops so far, the time t on an
\* unbounded clock, the time at of the start of the last loop, since when
\* every loop read arm and launch held in RUN (launchFrom) and reset held
\* (resetFrom), -1 if the last did not; launchLatched before the last loop;
\* the start of the loop that last called start_igniter_relay, -1 if none;
\* how often it was called and how often a celebration finished
MainHistory0 ==
    [loops |-> 0, t |-> setup.millis, at |-> 0, launchFrom |-> -1,
     resetFrom |-> -1, wasLatched |-> FALSE, startAt |-> -1,
     starts |-> 0, resets |-> 0]

\* f2 is the board after the loop that began e ms after f was left
MainHistory(f, f2, e) ==
    LET at == fh.t + e
        both == f2.in.arm /\ f2.in.launch /\ f2.bootPhase = "RUN"
    IN  [loops |-> fh.loops + 1,
         t |-> at + Sub(f2.millis, Add(f.millis, e)),
         at |-> at,
         launchFrom |-> IF ~both THEN -1
                        ELSE IF fh.launchFrom >= 0 THEN fh.launchFrom ELSE at,
         resetFrom |-> IF ~f2.in.reset THEN -1
                       ELSE IF fh.resetFrom >= 0 THEN fh.resetFrom ELSE at,
         wasLatched |-> f.st.launchLatched,
         startAt |-> IF "start_igniter_relay" \in f2.calls THEN at
                     ELSE fh.startAt,
         starts |-> fh.starts + (IF "start_igniter_relay" \in f2.calls
                                 THEN 1 ELSE 0),
         resets |-> fh.resets + (IF "celebration_done" \in f2.calls
                                 THEN 1 ELSE 0)]

\* loop() is called again e ms after it returned
MainLoop(e, in) ==
    /\ fh.loops < MaxLoops
    /\ \E f2 \in {loopOnce([fw EXCEPT !.millis = Add(@, e)], in)} :
           /\ fw' = f2
           /\ fh' = MainHistory(fw, f2, e)
    /\ UNCHANGED <<rc, hw, now, h>>

NextMain == \E e \in MainSteps, in \in Inputs : MainLoop(e, in)

InitMain ==
    /\ rc = RocketController0
    /\ hw = MockArduinoInterface0
    /\ now = 0
    /\ h = History0
    /\ fw = setup
    /\ fh = MainHistory0

SpecMain == InitMain /\ [][NextMain]_vars

----------------------------------------------------------------------------
(* The polling loop: set the clock, then                                   *)
(* controller->update(mockInterface->millis()), during which the inputs    *)
(* read as in                                                              *)

\* rc and hw after one iteration that comes d ms after the last one, during
\* which globalFaultActive() returns gf
PollWith(c, m, d, in, gf) ==
    LET s0 == [rc |-> c, hw |-> [m EXCEPT !.mock_millis = Add(m.mock_millis, d)],
               in |-> in, fault |-> gf]
    IN  update(s0, millis(s0))

\* the same with globalFaultActive() as it is in the source
Poll(c, m, d, in) == PollWith(c, m, d, in, globalFaultActive_Stub)

Init ==
    /\ rc = RocketController0
    /\ fw = setup
    /\ fh = MainHistory0
    /\ hw = MockArduinoInterface0
    /\ now = 0
    /\ h = History0

\* one iteration of the loop
Iterate(d, in, gf) ==
    LET s1 == PollWith(rc, hw, d, in, gf)
    IN  /\ rc' = s1.rc
        /\ UNCHANGED <<fw, fh>>
        /\ hw' = s1.hw
        /\ now' = s1.hw.mock_millis
        /\ h' = History(rc, s1.rc, h.elapsed + d, in, gf)

Tick(d, in) ==
    /\ h.ticks < MaxTicks
    /\ Iterate(d, in, globalFaultActive_Stub)

Next == \E d \in Steps, in \in Inputs : Tick(d, in)

Spec == Init /\ [][Next]_vars

----------------------------------------------------------------------------
(* The same loop, started where the nominal start-up ends: the state the   *)
(* program reaches from construction by ticks every 250 ms with no control *)
(* active, on the tick that leaves STARTUP for READY                       *)

NoInput == [arm |-> FALSE, reset |-> FALSE, launch |-> FALSE]

RECURSIVE NominalStartup(_, _, _)
NominalStartup(c, m, fuel) ==
    IF c.state # "STARTUP" \/ fuel = 0
    THEN [rc |-> c, hw |-> m]
    ELSE LET s == Poll(c, m, STARTUP_CHECK_INTERVAL, NoInput)
         IN  NominalStartup(s.rc, s.hw, fuel - 1)

AfterStartup ==
    NominalStartup(RocketController0, MockArduinoInterface0, 2 * STARTUP_CHECKS_COUNT)

InitFire ==
    /\ rc = AfterStartup.rc
    /\ fw = setup
    /\ fh = MainHistory0
    /\ hw = AfterStartup.hw
    /\ now = AfterStartup.hw.mock_millis
    /\ h = [History0 EXCEPT !.elapsed = AfterStartup.hw.mock_millis,
                            !.entryT = AfterStartup.hw.mock_millis,
                            !.prev = "STARTUP"]

SpecFire == InitFire /\ [][Next]_vars

----------------------------------------------------------------------------
(* The loop during the start-up self-check, as in                          *)
(* test_startup_to_ready_transition: it polls while the state is STARTUP,  *)
(* here every 125 or 250 ms and with any values of the three inputs        *)

BootTick(d, in) ==
    /\ rc.state = "STARTUP"
    /\ h.ticks < MaxBootTicks
    /\ Iterate(d, in, globalFaultActive_Stub)

NextBoot == \E d \in BootSteps, in \in Inputs : BootTick(d, in)

SpecBoot == Init /\ [][NextBoot]_vars

----------------------------------------------------------------------------
(* The loop of test_startup_to_ready_transition with no control active and  *)
(* a fixed step (100 ms in the test), kept running after the state has left *)
(* STARTUP.  The loop never stops polling: a tick that can be taken is      *)
(* taken.                                                                   *)

LiveTick(d) ==
    /\ h.ticks < MaxLiveTicks
    /\ h.elapsed = h.ticks * d
    /\ Iterate(d, NoInput, globalFaultActive_Stub)

NextLive == \E d \in LiveSteps : LiveTick(d)

SpecLive == Init /\ [][NextLive]_vars /\ WF_vars(NextLive)

----------------------------------------------------------------------------
(* A caller of update(now) whose timestamps are not the interface clock:    *)
(* update() takes any uint32_t, while enter() reads interface->millis().    *)
(* Between two calls the timestamp advances by d and the interface clock by *)
(* m; now is the timestamp passed, hw.mock_millis the interface clock.  The *)
(* loop starts where the nominal start-up ends, the two in step.            *)

SkewTick(d, m, in) ==
    /\ h.ticks < MaxSkewTicks
    /\ LET s0 == [rc |-> rc,
                  hw |-> [hw EXCEPT !.mock_millis = Add(hw.mock_millis, m)],
                  in |-> in, fault |-> globalFaultActive_Stub]
           s1 == update(s0, Add(now, d))
       IN  /\ rc' = s1.rc
           /\ UNCHANGED <<fw, fh>>
           /\ hw' = s1.hw
           /\ now' = Add(now, d)
           /\ h' = History(rc, s1.rc, h.elapsed + d, in, globalFaultActive_Stub)

NextSkew == \E d \in Steps, m \in Steps \cup {0}, in \in Inputs : SkewTick(d, m, in)

SpecSkew == InitFire /\ [][NextSkew]_vars

----------------------------------------------------------------------------
(* A driver that also calls the public enter() itself, between ticks, as   *)
(* test_manual_state_management does                                       *)

Enter(st) ==
    /\ h.enters < MaxEnters
    /\ LET s1 == enter([rc |-> rc, hw |-> hw, in |-> NoInput,
                        fault |-> globalFaultActive_Stub], st)
       IN  /\ rc' = s1.rc
           /\ UNCHANGED <<fw, fh>>
           /\ hw' = s1.hw
           /\ now' = now
           /\ h' = HistoryEnter(rc, s1.rc)

ManualTick(d, in) ==
    /\ h.ticks < MaxManualTicks
    /\ Iterate(d, in, globalFaultActive_Stub)

NextManual ==
    \/ \E d \in Steps, in \in Inputs : ManualTick(d, in)
    \/ \E st \in State : Enter(st)

SpecManual == Init /\ [][NextManual]_vars

----------------------------------------------------------------------------
(* The polling loop around a controller whose global-fault predicate is    *)
(* pluggable: globalFaultActive() returns either value at each tick.  The  *)
(* loop starts at construction or where the nominal start-up ends.         *)

FaultTick(d, in, gf) ==
    /\ h.ticks < MaxFaultTicks
    /\ Iterate(d, in, gf)

NextFault == \E d \in Steps, in \in Inputs, gf \in BOOLEAN : FaultTick(d, in, gf)

InitFault == Init \/ InitFire

SpecFault == InitFault /\ [][NextFault]_vars

----------------------------------------------------------------------------
(* The sequencer on its own: playBuzzerSequence and stopBuzzer called at    *)
(* any time with any of the sequences in BuzzInputs, and updateBuzzer       *)
(* called with the clock advanced by one of BuzzSteps.                      *)

BuzzInputs == {"SND_CHIRP", "SEQ_REST", "nullptr"}

\* the lengths tried with a sequence: none, and all its notes (1 with nullptr)
BuzzLengths(sequence) ==
    {0, IF sequence = "nullptr" THEN 1 ELSE Len(BuzzSeq(sequence))}

\* the record the calls work on
Here == [rc |-> rc, hw |-> hw, in |-> NoInput, fault |-> globalFaultActive_Stub]

\* updateBuzzer called d ms from now
BuzzAfter(d) ==
    LET s0 == [Here EXCEPT !.hw.mock_millis = Add(hw.mock_millis, d)]
    IN  updateBuzzer(s0, millis(s0))

\* the sequencer c is in the middle of a sequence
Playing(c) == c.active /\ c.seq # "nullptr" /\ c.len # 0

PlayCall(sequence, length, loop) ==
    /\ h.bz.plays < MaxPlays
    /\ LET s1 == playBuzzerSequence(Here, sequence, length, loop)
       IN  /\ rc' = s1.rc
           /\ UNCHANGED <<fw, fh>>
           /\ hw' = s1.hw
           /\ now' = now
           /\ h' = [h EXCEPT !.bz =
                      [@ EXCEPT !.last = "play",
                                !.args = <<sequence, length, loop>>,
                                !.phase = "idle", !.order = <<>>, !.starts = 0,
                                !.stopped = FALSE, !.cut = FALSE,
                                !.replaced = Playing(rc.buzzer)
                                               /\ h.bz.phase \in {"tone", "gap"},
                                !.plays = @ + 1]]

StopCall ==
    /\ h.bz.stops < MaxStops
    /\ LET s1 == stopBuzzer(Here)
       IN  /\ rc' = s1.rc
           /\ UNCHANGED <<fw, fh>>
           /\ hw' = s1.hw
           /\ now' = now
           /\ h' = [h EXCEPT !.bz =
                      [@ EXCEPT !.last = "stop", !.phase = "idle",
                                !.stopped = TRUE,
                                !.cut = Playing(rc.buzzer)
                                          /\ h.bz.phase \in {"tone", "gap"},
                                !.stops = @ + 1]]

\* the sequencer history after updateBuzzer at time e made c2 of c
BuzzHistory(c, c2, e) ==
    LET b == h.bz
        n == BuzzSeq(c.seq)[c.idx + 1] IN
    IF ~Playing(c) THEN [b EXCEPT !.last = "tick"]
    ELSE IF c.stepDeadline = 0
    THEN LET ph == IF c.inGap THEN "gap" ELSE "tone" IN
         [b EXCEPT !.last = "tick", !.phase = ph, !.at = e,
                   !.dur = IF c.inGap THEN n.gap_ms ELSE n.ms,
                   !.order = Append(@, <<c.idx, ph>>),
                   !.starts = IF ~c.inGap /\ n.freq > 0 THEN @ + 1 ELSE @]
    ELSE IF c2 = c
    THEN [b EXCEPT !.last = "tick", !.late = @ \/ e - b.at >= b.dur]
    ELSE LET leaves == ~c2.active \/ c2.idx # c.idx \/ ~c2.inGap IN
         [b EXCEPT !.last = "tick",
                   !.phase = IF c2.active THEN "idle" ELSE "done",
                   !.early = @ \/ e - b.at < b.dur,
                   !.miscount = @ \/ (leaves /\ b.starts
                                         # (IF n.freq > 0 THEN 1 ELSE 0)),
                   !.starts = IF leaves THEN 0 ELSE @]

BuzzTick(d) ==
    /\ h.ticks < MaxBuzzTicks
    /\ LET s1 == BuzzAfter(d)
       IN  /\ rc' = s1.rc
           /\ UNCHANGED <<fw, fh>>
           /\ hw' = s1.hw
           /\ now' = s1.hw.mock_millis
           /\ h' = [h EXCEPT !.ticks = @ + 1,
                             !.elapsed = @ + d,
                             !.bz = BuzzHistory(rc.buzzer, s1.rc.buzzer,
                                                h.elapsed + d)]

NextBuzz ==
    \/ \E d \in BuzzSteps : BuzzTick(d)
    \/ \E sequence \in BuzzInputs, loop \in BOOLEAN :
           \E length \in BuzzLengths(sequence) :
               PlayCall(sequence, length, loop)
    \/ StopCall

SpecBuzz == Init /\ [][NextBuzz]_vars

----------------------------------------------------------------------------
(* The polling loop across the wrap of the millisecond counter.  The loop   *)
(* starts in READY after the nominal start-up, once the sound of READY is   *)
(* over, with the counter WrapLead ms before it wraps to 0 (idle ticks in   *)
(* READY change nothing but the clock).  The history carries a twin: the    *)
(* same controller given the same ticks with its counter far from the wrap. *)

RECURSIVE Settle(_, _)
\* p after idle ticks every 250 ms until the sequencer is inactive
Settle(p, fuel) ==
    IF ~p.rc.buzzer.active \/ fuel = 0
    THEN p
    ELSE Settle(Poll(p.rc, p.hw, STARTUP_CHECK_INTERVAL, NoInput), fuel - 1)

Quiet == Settle(AfterStartup, STARTUP_CHECKS_COUNT)

\* the distances to the wrap the loop starts at: two and 23 check intervals
WrapLeads == {2 * STARTUP_CHECK_INTERVAL, 23 * STARTUP_CHECK_INTERVAL}

\* after the tick that made c2 of c: a hold or a sequencer step that is in
\* progress has its start or deadline recorded as 0
ZeroStamp(c, c2, h2) ==
    \/ c2.state = "ARMED" /\ h2.launchFrom >= 0 /\ c2.launchHeldSince = 0
    \/ c2.state = "FAULT" /\ h2.resetFrom >= 0 /\ c2.resetHeldSince = 0
    \/ /\ c2.state = c.state
       /\ c.buzzer.active /\ c.buzzer.stepDeadline = 0
       /\ c2.buzzer.active /\ c2.buzzer.stepDeadline = 0

InitWrap ==
    \E lead \in WrapLeads :
        LET p == Poll(Quiet.rc, Quiet.hw,
                      Sub(ClockMod - lead, Quiet.hw.mock_millis), NoInput)
        IN  /\ rc = p.rc
            /\ fw = setup
            /\ fh = MainHistory0
            /\ hw = p.hw
            /\ now = p.hw.mock_millis
            /\ h = [History0 EXCEPT !.elapsed = ClockMod - lead,
                                    !.entryT = AfterStartup.hw.mock_millis,
                                    !.prev = "READY",
                                    !.twin = [rc |-> Quiet.rc, hw |-> Quiet.hw]]

WrapTick(d, in) ==
    /\ h.ticks < MaxWrapTicks
    /\ LET s1 == Poll(rc, hw, d, in)
           t1 == Poll(h.twin.rc, h.twin.hw, d, in)
           h1 == History(rc, s1.rc, h.elapsed + d, in, globalFaultActive_Stub)
       IN  /\ rc' = s1.rc
           /\ UNCHANGED <<fw, fh>>
           /\ hw' = s1.hw
           /\ now' = s1.hw.mock_millis
           /\ h' = [h1 EXCEPT !.twin = [rc |-> t1.rc, hw |-> t1.hw],
                              !.zero = h.zero \/ ZeroStamp(rc, s1.rc, h1)]

NextWrap == \E d \in WrapSteps, in \in Inputs : WrapTick(d, in)

SpecWrap == InitWrap /\ [][NextWrap]_vars

----------------------------------------------------------------------------
(* One more tick from the present state: the tick comes d ms after the     *)
(* last one and reads the inputs as in.  LookSteps are the spacings tried. *)

LookSteps == {0, 1, 249, 250, 251, 1499, 1500, 1501, 2499, 2500, 2501,
              4999, 5000, 5001, 10000}

After(d, in) == Poll(rc, hw, d, in)

PinsAre(m, readyLed, armedLed, launchLamp, relay) ==
    /\ m.mock_pin_states[PIN_LED_READY] = readyLed
    /\ m.mock_pin_states[PIN_LED_ARMED] = armedLed
    /\ m.mock_pin_states[PIN_LAUNCH_LIGHT] = launchLamp
    /\ m.mock_pin_states[PIN_RELAY] = relay

\* the tick that follows p: it comes d ms after it and reads the inputs as in
Then(p, d, in) == Poll(p.rc, p.hw, d, in)

OnlyReset == [arm |-> FALSE, reset |-> TRUE, launch |-> FALSE]
ArmAndLaunch == [arm |-> TRUE, reset |-> FALSE, launch |-> TRUE]
ArmOnly == [arm |-> TRUE, reset |-> FALSE, launch |-> FALSE]

\* the last tick changed the state
Entered(st) == rc.state = st /\ h.prev # st /\ h.prev # "NONE"

\* at a tick d ms from now: the time since the tick that entered rc.state
Since(d) == h.elapsed + d - h.entryT

----------------------------------------------------------------------------
(* C1: every entry into LAUNCHING is made by a tick handled in             *)
(* LAUNCH_COUNTDOWN, which was entered from ARMED; arm was read engaged on *)
(* every tick since the last entry into ARMED; launch was read held on     *)
(* every tick of a run that began at least 250 ms before the countdown was *)
(* entered and lasted at least HOLD_TO_LAUNCH_MS after it.                 *)
C1_LaunchRitual ==
    Entered("LAUNCHING") =>
        /\ h.prev = "LAUNCH_COUNTDOWN"
        /\ h.cdFrom = "ARMED"
        /\ h.armHeld
        /\ h.launchFrom >= 0
        /\ h.cdAt - h.launchFrom >= 250
        /\ h.elapsed - h.cdAt >= HOLD_TO_LAUNCH_MS

C1_Witness ==
    /\ Entered("LAUNCHING")
    /\ h.cdAt - h.launchFrom = 250
    /\ h.elapsed - h.cdAt = HOLD_TO_LAUNCH_MS

(* C2: the relay pin and the launch-lamp pin are HIGH exactly in           *)
(* LAUNCHING; in COOLDOWN, ABORT and FAULT all four pins are LOW.          *)
C2_OutputsFollowState ==
    /\ hw.mock_pin_states[PIN_RELAY] = HIGH <=> rc.state = "LAUNCHING"
    /\ hw.mock_pin_states[PIN_LAUNCH_LIGHT] = HIGH <=> rc.state = "LAUNCHING"
    /\ rc.state \in {"COOLDOWN", "ABORT", "FAULT"} => PinsAre(hw, LOW, LOW, LOW, LOW)

C2_Witness ==
    /\ Entered("COOLDOWN")
    /\ PinsAre(hw, LOW, LOW, LOW, LOW)
    /\ h.trail = <<"LAUNCHING", "COOLDOWN">>

(* C3: in LAUNCH_COUNTDOWN a tick that reads arm released ends in FAULT,   *)
(* whatever it reads for launch and reset and however long the countdown   *)
(* has lasted.                                                             *)
C3_InterlockFault ==
    rc.state = "LAUNCH_COUNTDOWN" =>
        \A d \in LookSteps, in \in Inputs :
            ~in.arm => After(d, in).rc.state = "FAULT"

C3_Witness ==
    /\ Entered("FAULT")
    /\ h.prev = "LAUNCH_COUNTDOWN"
    /\ h.elapsed - h.prevEntryT >= HOLD_TO_LAUNCH_MS


(* C4: in LAUNCH_COUNTDOWN with arm engaged, a tick that reads launch       *)
(* released before HOLD_TO_LAUNCH_MS have passed since the countdown was   *)
(* entered ends in ABORT, and ABORT is left only for ARMED or READY, never *)
(* for LAUNCHING.                                                          *)
C4_EarlyReleaseAborts ==
    /\ rc.state = "LAUNCH_COUNTDOWN" =>
          \A d \in LookSteps, in \in Inputs :
              (in.arm /\ ~in.launch /\ Since(d) < HOLD_TO_LAUNCH_MS)
                  => After(d, in).rc.state = "ABORT"
    /\ h.prev = "ABORT" => rc.state \in {"ABORT", "ARMED", "READY"}

C4_Witness ==
    /\ Entered("ABORT")
    /\ h.prev = "LAUNCH_COUNTDOWN"
    /\ h.elapsed - h.prevEntryT < HOLD_TO_LAUNCH_MS

(* C5: in LAUNCH_COUNTDOWN, a tick that reads arm and launch engaged keeps *)
(* the state while less than HOLD_TO_LAUNCH_MS have passed since the       *)
(* countdown was entered and enters LAUNCHING otherwise.                   *)
C5_HoldToLaunch ==
    rc.state = "LAUNCH_COUNTDOWN" =>
        \A d \in LookSteps, in \in Inputs :
            (in.arm /\ in.launch) =>
                After(d, in).rc.state =
                    IF Since(d) >= HOLD_TO_LAUNCH_MS
                    THEN "LAUNCHING" ELSE "LAUNCH_COUNTDOWN"

C5_Witness ==
    /\ Entered("LAUNCHING")
    /\ h.prev = "LAUNCH_COUNTDOWN"
    /\ h.elapsed - h.prevEntryT = HOLD_TO_LAUNCH_MS

(* C6: in LAUNCHING, whatever a tick reads, it keeps the state with relay  *)
(* and launch lamp on while less than RELAY_ON_MS have passed since        *)
(* LAUNCHING was entered; otherwise it switches all outputs off and enters *)
(* COOLDOWN.                                                               *)
C6_RelayWindow ==
    rc.state = "LAUNCHING" =>
        \A d \in LookSteps, in \in Inputs :
            LET p == After(d, in) IN
            IF Since(d) < RELAY_ON_MS
            THEN /\ p.rc.state = "LAUNCHING"
                 /\ p.hw.mock_pin_states[PIN_RELAY] = HIGH
                 /\ p.hw.mock_pin_states[PIN_LAUNCH_LIGHT] = HIGH
            ELSE /\ p.rc.state = "COOLDOWN"
                 /\ PinsAre(p.hw, LOW, LOW, LOW, LOW)

C6_Witness ==
    /\ Entered("COOLDOWN")
    /\ h.prev = "LAUNCHING"
    /\ h.elapsed - h.prevEntryT = RELAY_ON_MS
    /\ hw.mock_pin_states[PIN_RELAY] = LOW

(* C7: in COOLDOWN, whatever a tick reads, it keeps the state while less   *)
(* than COOLDOWN_MS have passed since COOLDOWN was entered and enters      *)
(* FAULT otherwise; COOLDOWN is left for no other state.                   *)
C7_CooldownToFault ==
    /\ rc.state = "COOLDOWN" =>
          \A d \in LookSteps, in \in Inputs :
              After(d, in).rc.state =
                  IF Since(d) < COOLDOWN_MS THEN "COOLDOWN" ELSE "FAULT"
    /\ h.prev = "COOLDOWN" => rc.state \in {"COOLDOWN", "FAULT"}

C7_Witness ==
    /\ Entered("FAULT")
    /\ h.prev = "COOLDOWN"
    /\ h.elapsed - h.prevEntryT = COOLDOWN_MS

(* C8: the states entered after an entry into LAUNCHING are COOLDOWN and   *)
(* then FAULT, in that order and no other, until FAULT is left; and after  *)
(* a firing FAULT is left only for READY, on a tick that completes a reset *)
(* hold of RESET_HOLD_MS with arm disengaged.                              *)
C8_SafingAfterFire ==
    /\ h.trail \in {<<>>, <<"LAUNCHING">>, <<"LAUNCHING", "COOLDOWN">>,
                    <<"LAUNCHING", "COOLDOWN", "FAULT">>}
    /\ (h.fired /\ h.prev = "FAULT" /\ rc.state # "FAULT") =>
          /\ rc.state = "READY"
          /\ h.resetFrom >= 0
          /\ h.elapsed - h.resetFrom >= RESET_HOLD_MS

C8_Witness ==
    /\ rc.state = "ARMED"
    /\ h.fired
    /\ h.trail = <<>>

(* C9: FAULT is left only for READY, and only by a tick that reads arm     *)
(* disengaged and reset held and ends a run of such ticks, all handled in  *)
(* FAULT, that spans at least RESET_HOLD_MS; every other tick handled in   *)
(* FAULT keeps the state.                                                  *)
C9_FaultExit ==
    /\ (h.prev = "FAULT" /\ rc.state # "FAULT") =>
          /\ rc.state = "READY"
          /\ h.resetFrom >= 0
          /\ h.elapsed - h.resetFrom >= RESET_HOLD_MS
    /\ rc.state = "FAULT" =>
          \A d \in LookSteps, in \in Inputs :
              (\/ in.arm
               \/ ~in.reset
               \/ h.resetFrom < 0
               \/ h.elapsed + d - h.resetFrom < RESET_HOLD_MS)
                  => After(d, in).rc.state = "FAULT"

C9_Witness ==
    /\ Entered("READY")
    /\ h.prev = "FAULT"
    /\ h.resetFrom >= 0
    /\ h.elapsed - h.resetFrom >= RESET_HOLD_MS

(* C10 as stated: if FAULT was entered at time T and every tick from that  *)
(* one on has read arm disengaged and reset held, the tick at              *)
(* T + RESET_HOLD_MS enters READY.                                         *)
C10_ReadyAfterHoldFromEntry ==
    (rc.state = "FAULT" /\ h.faultHeld) =>
        \A d \in LookSteps, in \in Inputs :
            (~in.arm /\ in.reset /\ Since(d) = RESET_HOLD_MS)
                => After(d, in).rc.state = "READY"

(* C10 amended: if every tick since (and including) the one that entered   *)
(* FAULT has read arm disengaged and reset held, the hold is counted from  *)
(* the first tick handled in FAULT, which is the tick after the entering   *)
(* one: a further such tick enters READY if it comes at least              *)
(* RESET_HOLD_MS after that first tick, and keeps FAULT otherwise.         *)
C10_ReadyAfterHoldFromFirstTick ==
    (rc.state = "FAULT" /\ h.faultHeld) =>
        \A d \in LookSteps, in \in Inputs :
            (~in.arm /\ in.reset) =>
                LET first == IF h.resetFrom >= 0 THEN h.resetFrom ELSE h.elapsed + d
                IN  After(d, in).rc.state =
                        IF h.elapsed + d - first >= RESET_HOLD_MS
                        THEN "READY" ELSE "FAULT"

C10_Witness ==
    /\ Entered("READY")
    /\ h.prev = "FAULT"
    /\ h.faultHeld
    /\ h.resetFrom > h.prevEntryT
    /\ h.elapsed - h.resetFrom >= RESET_HOLD_MS
    /\ h.elapsed - h.prevEntryT > RESET_HOLD_MS

(* C11: in FAULT a tick that reads reset released or arm engaged keeps     *)
(* FAULT and sets the reset hold timer to zero; a press read 100 ms later  *)
(* starts the count again, so that a further tick with reset held enters   *)
(* READY only if it comes at least RESET_HOLD_MS after the re-press; and   *)
(* every tick that leaves FAULT after a broken hold ends a run of          *)
(* reset-held ticks of at least RESET_HOLD_MS that began after the break.  *)
C11_ReleaseRestartsHold ==
    /\ rc.state = "FAULT" =>
          \A d \in LookSteps, in \in Inputs :
              (in.arm \/ ~in.reset) =>
                  LET p == After(d, in) IN
                  /\ p.rc.state = "FAULT"
                  /\ p.rc.resetHeldSince = 0
    /\ rc.state = "FAULT" =>
          \A in \in Inputs :
              (in.arm \/ ~in.reset) =>
                  LET q == Then(After(100, in), 100, OnlyReset) IN
                  /\ q.rc.state = "FAULT"
                  /\ q.rc.resetHeldSince = q.hw.mock_millis
                  /\ \A d \in {2400, RESET_HOLD_MS - 1} :
                         Then(q, d, OnlyReset).rc.state = "FAULT"
                  /\ Then(q, RESET_HOLD_MS, OnlyReset).rc.state = "READY"
    /\ (h.prev = "FAULT" /\ rc.state # "FAULT" /\ h.resetBroken) =>
          /\ h.resetFrom >= 0
          /\ h.elapsed - h.resetFrom >= RESET_HOLD_MS

C11_Witness ==
    /\ Entered("READY")
    /\ h.prev = "FAULT"
    /\ h.resetBroken
    /\ h.resetFrom > h.prevEntryT
    /\ h.elapsed - h.resetFrom >= RESET_HOLD_MS

(* C12: LAUNCH_COUNTDOWN is entered only from ARMED, by a tick that ends a *)
(* run of ticks handled in ARMED, all reading launch held, that spans at   *)
(* least 250 ms; in ARMED with arm engaged a tick that reads launch        *)
(* released keeps ARMED and sets launchHeldSince to zero, and one that     *)
(* reads launch held enters LAUNCH_COUNTDOWN exactly when the present run  *)
(* of launch-held ticks began at least 250 ms earlier.  A hold of 200 ms   *)
(* followed by a release stays in ARMED, and the next press counts from    *)
(* zero.                                                                   *)
C12_LaunchHoldNoCredit ==
    /\ Entered("LAUNCH_COUNTDOWN") =>
          /\ h.prev = "ARMED"
          /\ h.launchFrom >= 0
          /\ h.elapsed - h.launchFrom >= 250
    /\ rc.state = "ARMED" =>
          \A d \in LookSteps, in \in Inputs :
              LET p == After(d, in) IN
              /\ (in.arm /\ ~in.launch) =>
                    (p.rc.state = "ARMED" /\ p.rc.launchHeldSince = 0)
              /\ (in.arm /\ in.launch) =>
                    p.rc.state =
                        IF h.launchFrom >= 0 /\ h.elapsed + d - h.launchFrom >= 250
                        THEN "LAUNCH_COUNTDOWN" ELSE "ARMED"
    /\ (rc.state = "ARMED" /\ h.launchFrom = -1) =>
          LET held == Then(After(100, ArmAndLaunch), 200, ArmAndLaunch)
              released == Then(held, 100, ArmOnly)
              again == Then(released, 100, ArmAndLaunch)
          IN  /\ held.rc.state = "ARMED"
              /\ released.rc.state = "ARMED"
              /\ released.rc.launchHeldSince = 0
              /\ again.rc.state = "ARMED"
              /\ Then(again, 249, ArmAndLaunch).rc.state = "ARMED"
              /\ Then(again, 250, ArmAndLaunch).rc.state = "LAUNCH_COUNTDOWN"

C12_Witness ==
    /\ Entered("LAUNCH_COUNTDOWN")
    /\ h.prev = "ARMED"
    /\ h.launchBroken
    /\ h.elapsed - h.launchFrom = 250

(* C13: in ARMED a tick that reads arm released ends in READY, whatever it *)
(* reads for launch and reset and however long launch has been held; and   *)
(* the tick that enters LAUNCH_COUNTDOWN has read arm engaged.             *)
C13_DisarmWins ==
    /\ rc.state = "ARMED" =>
          \A d \in LookSteps, in \in Inputs :
              ~in.arm => After(d, in).rc.state = "READY"
    /\ Entered("LAUNCH_COUNTDOWN") => h.armHeld

C13_Witness ==
    /\ Entered("READY")
    /\ h.prev = "ARMED"
    /\ h.launchFrom >= 0
    /\ h.elapsed - h.launchFrom >= 250

(* C14: in STARTUP, at the first tick and at every later one, a tick that  *)
(* reads arm, reset or launch active ends in FAULT (so not in READY) and   *)
(* runs no check item: the check index, the time of the last check and the *)
(* completion record are as before the tick.                               *)
C14_StartupFaultsOnInput ==
    rc.state = "STARTUP" =>
        \A d \in LookSteps, in \in Inputs :
            (in.arm \/ in.reset \/ in.launch) =>
                LET p == After(d, in) IN
                /\ p.rc.state = "FAULT"
                /\ p.rc.startupCheckIndex = rc.startupCheckIndex
                /\ p.rc.lastCheckTime = rc.lastCheckTime
                /\ p.rc.startupComplete = rc.startupComplete
                /\ p.rc.completionTime = rc.completionTime

C14_Witness ==
    /\ Entered("FAULT")
    /\ h.prev = "STARTUP"
    /\ h.ticks = 1
    /\ h.elapsed >= STARTUP_CHECK_INTERVAL
    /\ rc.startupCheckIndex = 0

\* every tick so far came step ms after the one before, the first at step
Every(step) == h.elapsed = h.ticks * step

\* the smaller of two numbers
Min(a, b) == IF a < b THEN a ELSE b

(* C15 as stated: with no control ever active and a tick every 250 ms from *)
(* t = 0, the state is READY from t = 6000 on and not before.              *)
C15_ReadyAt6000 ==
    (Every(STARTUP_CHECK_INTERVAL) /\ rc.state # "FAULT") =>
        (rc.state = "READY" <=>
            h.elapsed >= STARTUP_TOTAL_TIME_MS + 1000)

(* C15 amended: with no control ever active and a tick every 250 ms (or    *)
(* every 125 ms) the check items run at t = 250, 500, ..., 5000, one every *)
(* STARTUP_CHECK_INTERVAL for 20 items; the completion is recorded at      *)
(* t = 5250, and the state becomes READY at t = 6250, not before.  However *)
(* the ticks are spaced, READY is not entered before t = 6250 nor before   *)
(* all 20 items have run.                                                  *)
C15_ReadyAt6250 ==
    /\ \A step \in BootSteps :
          (Every(step) /\ rc.state # "FAULT") =>
              /\ rc.state = "READY" <=>
                    h.elapsed >= STARTUP_TOTAL_TIME_MS + STARTUP_CHECK_INTERVAL + 1000
              /\ rc.startupCheckIndex =
                    Min(h.elapsed \div STARTUP_CHECK_INTERVAL, STARTUP_CHECKS_COUNT)
              /\ rc.startupComplete <=>
                    h.elapsed >= STARTUP_TOTAL_TIME_MS + STARTUP_CHECK_INTERVAL
              /\ rc.startupComplete =>
                    rc.completionTime = STARTUP_TOTAL_TIME_MS + STARTUP_CHECK_INTERVAL
    /\ (rc.state = "READY" /\ h.prev = "STARTUP") =>
          /\ h.elapsed >= STARTUP_TOTAL_TIME_MS + STARTUP_CHECK_INTERVAL + 1000
          /\ rc.startupCheckIndex = STARTUP_CHECKS_COUNT

C15_Witness ==
    /\ Entered("READY")
    /\ h.prev = "STARTUP"
    /\ Every(STARTUP_CHECK_INTERVAL)
    /\ h.elapsed = 6250
    /\ rc.startupCheckIndex = STARTUP_CHECKS_COUNT

(* C16 as stated: systemLocked goes from true to false only in a step that *)
(* enters READY.                                                           *)
C16_UnlockOnlyOnReady ==
    (h.prevLocked /\ ~rc.systemLocked) => rc.state = "READY"

(* C16 amended: systemLocked goes from true to false only in a step, a     *)
(* tick or a direct call of enter(), that enters READY or FAULT; a step    *)
(* that ends in any other state leaves a locked system locked.             *)
C16_UnlockOnlyOnReadyOrFault ==
    /\ (h.prevLocked /\ ~rc.systemLocked) => rc.state \in {"READY", "FAULT"}
    /\ rc.systemLocked =>
          \A st \in State \ {"READY", "FAULT"} :
              enter([rc |-> rc, hw |-> hw, in |-> NoInput,
                     fault |-> globalFaultActive_Stub], st).rc.systemLocked

C16_Witness ==
    /\ h.prevLocked
    /\ ~rc.systemLocked
    /\ ~h.direct
    /\ h.prev = "STARTUP"
    /\ rc.state = "FAULT"

(* C17: in every state reached by ticks from construction, systemLocked is *)
(* true exactly when the state is STARTUP or SPLASH.                       *)
C17_LockedIffStartup ==
    rc.systemLocked <=> rc.state \in {"STARTUP", "SPLASH"}

C17_Witness ==
    /\ rc.state = "FAULT"
    /\ h.prev = "FAULT"
    /\ h.entryT = h.elapsed - STARTUP_CHECK_INTERVAL
    /\ h.ticks = 2
    /\ ~rc.systemLocked

(* C18 as stated: when systemLocked is true, no tick moves the controller  *)
(* into ARMED, LAUNCH_COUNTDOWN or LAUNCHING, whatever it reads and        *)
(* whenever it comes, also when the state was set by a direct call of      *)
(* enter().                                                                *)
C18_LockedBlocksLaunch ==
    rc.systemLocked =>
        \A d \in LookSteps, in \in Inputs :
            LET p == After(d, in) IN
            p.rc.state \in {"ARMED", "LAUNCH_COUNTDOWN", "LAUNCHING"}
                => p.rc.state = rc.state

\* a tick has moved a locked controller from LAUNCH_COUNTDOWN into LAUNCHING
\* and switched the relay on
C18_Witness ==
    /\ rc.systemLocked
    /\ h.prevLocked
    /\ ~h.direct
    /\ h.prev = "LAUNCH_COUNTDOWN"
    /\ rc.state = "LAUNCHING"
    /\ hw.mock_pin_states[PIN_RELAY] = HIGH

\* how long LAUNCHING, COOLDOWN and ABORT last
Window(st) ==
    CASE st = "LAUNCHING" -> RELAY_ON_MS
      [] st = "COOLDOWN" -> COOLDOWN_MS
      [] st = "ABORT" -> ABORT_INHIBIT_MS

\* a tick d ms from now that reads any of the inputs in ins does to the
\* controller and to the interface what a tick that reads no input active
\* does, and that tick keeps the state and the four output pins
Ignores(d, ins) ==
    LET q == After(d, NoInput)
    IN  /\ q.rc.state = rc.state
        /\ q.hw.mock_pin_states = hw.mock_pin_states
        /\ \A in \in ins :
               LET p == After(d, in) IN p.rc = q.rc /\ p.hw = q.hw

(* C19 as stated: while systemLocked is true a tick that reads launch held *)
(* keeps the state; in READY launch and reset, and in LAUNCHING, COOLDOWN  *)
(* and ABORT before the deadline all three inputs, change neither the      *)
(* state nor the outputs.                                                  *)
C19_OutOfStateIgnored ==
    /\ rc.systemLocked =>
          \A d \in LookSteps, in \in Inputs :
              in.launch => After(d, in).rc.state = rc.state
    /\ rc.state = "READY" =>
          \A d \in LookSteps : Ignores(d, {in \in Inputs : ~in.arm})
    /\ rc.state \in {"LAUNCHING", "COOLDOWN", "ABORT"} =>
          \A d \in LookSteps :
              Since(d) < Window(rc.state) => Ignores(d, Inputs)

(* C19 amended: in READY the launch and reset inputs, and in LAUNCHING,    *)
(* COOLDOWN and ABORT before the deadline all three inputs, have no        *)
(* effect: the tick leaves the controller and the interface as a tick that *)
(* reads nothing active does, with the state and the output pins as they   *)
(* were.  In STARTUP, where systemLocked is true, an input is not ignored: *)
(* a tick that reads launch held enters FAULT.                             *)
C19_IgnoredOutsideStartup ==
    /\ rc.state = "STARTUP" =>
          \A d \in LookSteps, in \in Inputs :
              in.launch => After(d, in).rc.state = "FAULT"
    /\ rc.state = "READY" =>
          \A d \in LookSteps : Ignores(d, {in \in Inputs : ~in.arm})
    /\ rc.state \in {"LAUNCHING", "COOLDOWN", "ABORT"} =>
          \A d \in LookSteps :
              Since(d) < Window(rc.state) => Ignores(d, Inputs)

C19_Witness ==
    /\ h.ignored
    /\ rc.state = "LAUNCHING"
    /\ h.prev = "LAUNCHING"
    /\ hw.mock_pin_states[PIN_RELAY] = HIGH

\* the tick d ms from now that reads in, with globalFaultActive() returning gf
AfterWith(d, in, gf) == PollWith(rc, hw, d, in, gf)

(* C20: with the global-fault predicate free, in every state other than    *)
(* FAULT (LAUNCHING with the relay on included) a tick at which the        *)
(* predicate is true ends in FAULT with all four outputs off, whatever it  *)
(* reads, and runs no state handler: the fields the handlers write         *)
(* (deadline, launch hold timer, start-up check record) are as before and  *)
(* the outcome does not depend on the inputs.  In FAULT a tick at which    *)
(* the predicate is true keeps FAULT, however long reset has been held.    *)
C20_GlobalFaultOverrides ==
    /\ h.gfault => rc.state = "FAULT"
    /\ rc.state # "FAULT" =>
          \A d \in LookSteps :
              LET q == AfterWith(d, NoInput, TRUE)
                  c == q.rc
              IN  /\ c.state = "FAULT"
                  /\ PinsAre(q.hw, LOW, LOW, LOW, LOW)
                  /\ c.enteredAt = q.hw.mock_millis
                  /\ c.resetHeldSince = 0
                  /\ c.deadline = rc.deadline
                  /\ c.launchHeldSince = rc.launchHeldSince
                  /\ c.startupCheckIndex = rc.startupCheckIndex
                  /\ c.lastCheckTime = rc.lastCheckTime
                  /\ c.startupComplete = rc.startupComplete
                  /\ c.completionTime = rc.completionTime
                  /\ \A in \in Inputs :
                         LET p == AfterWith(d, in, TRUE)
                         IN  p.rc = c /\ p.hw = q.hw
    /\ rc.state = "FAULT" =>
          \A d \in LookSteps, in \in Inputs :
              AfterWith(d, in, TRUE).rc.state = "FAULT"

\* the override has taken the controller from LAUNCHING straight to FAULT,
\* the predicate was still true at the last tick, and a reset hold is running
\* that a tick RESET_HOLD_MS from now completes: READY if the predicate is
\* false then, FAULT if it is true
C20_Witness ==
    /\ rc.state = "FAULT"
    /\ h.gfault
    /\ h.trail = <<"LAUNCHING", "FAULT">>
    /\ h.resetFrom >= 0
    /\ PinsAre(hw, LOW, LOW, LOW, LOW)
    /\ After(RESET_HOLD_MS, OnlyReset).rc.state = "READY"
    /\ AfterWith(RESET_HOLD_MS, OnlyReset, TRUE).rc.state = "FAULT"

(* C21: in ABORT, whatever a tick reads, it keeps the state with all four  *)
(* outputs off while less than ABORT_INHIBIT_MS have passed since ABORT    *)
(* was entered; otherwise it enters ARMED, with the launch hold timer at   *)
(* zero, if it reads arm engaged, and READY if it does not.                *)
C21_AbortInhibit ==
    /\ rc.state = "ABORT" =>
          \A d \in LookSteps, in \in Inputs :
              LET p == After(d, in) IN
              IF Since(d) < ABORT_INHIBIT_MS
              THEN /\ p.rc.state = "ABORT"
                   /\ PinsAre(p.hw, LOW, LOW, LOW, LOW)
              ELSE IF in.arm
              THEN /\ p.rc.state = "ARMED"
                   /\ p.rc.launchHeldSince = 0
              ELSE p.rc.state = "READY"
    /\ (Entered("ARMED") /\ h.prev = "ABORT") => rc.launchHeldSince = 0

C21_Witness ==
    /\ Entered("ARMED")
    /\ h.prev = "ABORT"
    /\ h.elapsed - h.prevEntryT >= ABORT_INHIBIT_MS
    /\ rc.launchHeldSince = 0
    /\ h.launchFrom = -1

\* the splash screen lasts 5 s (the literal in enter)
SplashMs == 5000

\* the controller and the interface after k ticks of the nominal start-up
StartupAfter(k) == NominalStartup(RocketController0, MockArduinoInterface0, k)

\* the tick d ms from now that reads in keeps the state
Stays(d, in) == After(d, in).rc.state = rc.state

(* C22: a tick that comes before the deadline or threshold of the present  *)
(* state, and reads the inputs that hold that state, keeps the state:      *)
(* STARTUP with no control active until all check items have run and the   *)
(* completion hold of 1000 ms is over (on the nominal start-up: before     *)
(* t = 6250); SPLASH for 5000 ms; ARMED with arm engaged until a run of    *)
(* launch-held ticks spans 250 ms; LAUNCH_COUNTDOWN with arm and launch    *)
(* engaged for HOLD_TO_LAUNCH_MS; LAUNCHING, COOLDOWN and ABORT, whatever  *)
(* is read, for RELAY_ON_MS, COOLDOWN_MS and ABORT_INHIBIT_MS; FAULT,      *)
(* whatever is read, until a run of reset-held ticks spans RESET_HOLD_MS.  *)
C22_NoSpuriousTransition ==
    /\ rc.state = "STARTUP" =>
          \A d \in LookSteps :
              (\/ rc.startupCheckIndex < STARTUP_CHECKS_COUNT
               \/ ~rc.startupComplete
               \/ Sub(Add(hw.mock_millis, d), rc.completionTime) < 1000)
                  => Stays(d, NoInput)
    /\ (h.ticks = 0 /\ h.enters = 0) =>
          \A k \in 0 .. STARTUP_CHECKS_COUNT + 4, d \in LookSteps :
              LET s == StartupAfter(k) IN
              (s.hw.mock_millis + d < 6250)
                  => Poll(s.rc, s.hw, d, NoInput).rc.state = "STARTUP"
    /\ rc.state = "SPLASH" =>
          \A d \in LookSteps, in \in Inputs :
              Since(d) < SplashMs => Stays(d, in)
    /\ rc.state = "ARMED" =>
          \A d \in LookSteps, in \in Inputs :
              (/\ in.arm
               /\ \/ ~in.launch
                  \/ h.launchFrom < 0
                  \/ h.elapsed + d - h.launchFrom < 250)
                  => Stays(d, in)
    /\ rc.state = "LAUNCH_COUNTDOWN" =>
          \A d \in LookSteps, in \in Inputs :
              (in.arm /\ in.launch /\ Since(d) < HOLD_TO_LAUNCH_MS) => Stays(d, in)
    /\ rc.state \in {"LAUNCHING", "COOLDOWN", "ABORT"} =>
          \A d \in LookSteps, in \in Inputs :
              Since(d) < Window(rc.state) => Stays(d, in)
    /\ rc.state = "FAULT" =>
          \A d \in LookSteps, in \in Inputs :
              (h.resetFrom < 0 \/ h.elapsed + d - h.resetFrom < RESET_HOLD_MS)
                  => Stays(d, in)

C22_Witness ==
    /\ rc.state = "SPLASH"
    /\ h.prev = "SPLASH"
    /\ ~h.direct
    /\ Since(0) >= STARTUP_CHECK_INTERVAL
    /\ Since(0) < SplashMs

\* the controller and the interface of p and of q show the same state,
\* outputs and sequencer position
Agree(p, q) ==
    /\ p.rc.state = q.rc.state
    /\ p.rc.systemLocked = q.rc.systemLocked
    /\ p.hw.mock_pin_states = q.hw.mock_pin_states
    /\ p.hw.mock_tone_active = q.hw.mock_tone_active
    /\ p.hw.mock_tone_freq = q.hw.mock_tone_freq
    /\ p.rc.buzzer.active = q.rc.buzzer.active
    /\ p.rc.buzzer.seq = q.rc.buzzer.seq
    /\ p.rc.buzzer.idx = q.rc.buzzer.idx
    /\ p.rc.buzzer.inGap = q.rc.buzzer.inGap

(* C23 as stated: across the wrap of the counter every deadline and hold   *)
(* decision is the one made with an unwrapped clock, holds and steps whose *)
(* recorded start or deadline is exactly 0 included: the controller whose  *)
(* counter wraps and its twin, whose counter does not, show the same       *)
(* state, outputs and sequencer position after every tick.                 *)
C23_SameAsUnwrapped == Agree([rc |-> rc, hw |-> hw], h.twin)

\* the same while no hold start and no step deadline was recorded as 0
C23_SameAwayFromZero == ~h.zero => Agree([rc |-> rc, hw |-> hw], h.twin)

\* launch was read held on two ticks 250 ms apart, the first with the
\* counter at 0: the twin has entered LAUNCH_COUNTDOWN, the controller is
\* still in ARMED and has restarted the hold
C23_Witness ==
    /\ rc.state = "ARMED"
    /\ h.twin.rc.state = "LAUNCH_COUNTDOWN"
    /\ h.launchFrom = ClockMod
    /\ h.elapsed = ClockMod + 250
    /\ rc.launchHeldSince = 250

\* the three timers of claim C24 and the states whose handler reads each
Timers == {"launchHeldSince", "resetHeldSince", "deadline"}

TimerStates(f) ==
    CASE f = "launchHeldSince" -> {"ARMED", "LAUNCH_COUNTDOWN"}
      [] f = "resetHeldSince" -> {"FAULT"}
      [] f = "deadline" -> {"SPLASH", "LAUNCHING", "COOLDOWN", "ABORT"}

\* the timers that mean nothing in state st
Idle(st) == {f \in Timers : st \notin TimerStates(f)}

DeadlineMs(st) == IF st = "SPLASH" THEN SplashMs ELSE Window(st)

\* p is as enter() leaves it: the entry time is recorded and the timers the
\* handler of the state reads are initialised
Fresh(p) ==
    /\ p.rc.enteredAt = p.hw.mock_millis
    /\ p.rc.state = "ARMED" => p.rc.launchHeldSince = 0
    /\ p.rc.state = "FAULT" => p.rc.resetHeldSince = 0
    /\ p.rc.state \in TimerStates("deadline") =>
           p.rc.deadline = Add(p.hw.mock_millis, DeadlineMs(p.rc.state))
    /\ p.rc.state = "STARTUP" =>
           /\ p.rc.startupCheckIndex = 0
           /\ p.rc.lastCheckTime = 0
           /\ ~p.rc.startupComplete

\* the last step called enter()
JustEntered == h.prev # "NONE" /\ (h.direct \/ h.prev # rc.state)

\* the values tried for a timer left from an earlier state, besides the one
\* it has: set at this time, set 2500 ms ago
StaleValues == {hw.mock_millis, Sub(hw.mock_millis, RESET_HOLD_MS)}

StaleSteps == {STARTUP_CHECK_INTERVAL, HOLD_TO_LAUNCH_MS}

(* C24 as stated: right after enter(s) every timer that means nothing in s *)
(* is cleared: launchHeldSince is 0 unless s is ARMED or LAUNCH_COUNTDOWN, *)
(* resetHeldSince is 0 unless s is FAULT, deadline is 0 unless s is        *)
(* SPLASH, LAUNCHING, COOLDOWN or ABORT.                                   *)
C24_TimersCleared ==
    JustEntered => \A f \in Idle(rc.state) : rc[f] = 0

(* C24 amended: enter(s) initialises the timers the handler of s reads     *)
(* (launchHeldSince = 0 in ARMED, resetHeldSince = 0 in FAULT, deadline =  *)
(* entry time + window in SPLASH, LAUNCHING, COOLDOWN and ABORT, enteredAt *)
(* = entry time, the check record in STARTUP) and leaves the others as     *)
(* they are; whatever value a timer that means nothing in s holds after    *)
(* enter(s), the next tick does the same to the controller and to the      *)
(* interface, and a state it enters is initialised the same way.           *)
C24_NoStaleInfluence ==
    JustEntered =>
        /\ Fresh([rc |-> rc, hw |-> hw])
        /\ \A d \in StaleSteps, in \in Inputs :
               LET p == After(d, in) IN
               \A f \in Idle(rc.state), v \in StaleValues :
                   LET q == Poll([rc EXCEPT ![f] = v], hw, d, in) IN
                   /\ q.hw = p.hw
                   /\ [q.rc EXCEPT ![f] = p.rc[f]] = p.rc
                   /\ q.rc.state # rc.state => Fresh(q)

C24_Witness ==
    /\ Entered("READY")
    /\ h.prev = "ARMED"
    /\ ~h.direct
    /\ rc.launchHeldSince # 0
    /\ rc.launchHeldSince = Sub(hw.mock_millis, STARTUP_CHECK_INTERVAL)

\* a tick: its distance from the one before and the inputs it reads
Press(d, in) == [d |-> d, in |-> in]

\* the tick that brings a controller in state st nearer to FAULT
TowardsFault(st) ==
    CASE st = "STARTUP" -> Press(STARTUP_CHECK_INTERVAL, ArmOnly)
      [] st = "SPLASH" -> Press(SplashMs, NoInput)
      [] st = "READY" -> Press(STARTUP_CHECK_INTERVAL, ArmOnly)
      [] st = "ARMED" -> Press(STARTUP_CHECK_INTERVAL, ArmAndLaunch)
      [] st = "LAUNCH_COUNTDOWN" -> Press(STARTUP_CHECK_INTERVAL, NoInput)
      [] st = "LAUNCHING" -> Press(RELAY_ON_MS, NoInput)
      [] st = "COOLDOWN" -> Press(COOLDOWN_MS, NoInput)
      [] st = "ABORT" -> Press(ABORT_INHIBIT_MS, NoInput)
      [] st = "FAULT" -> Press(STARTUP_CHECK_INTERVAL, NoInput)

\* the tick that brings a controller in state st nearer to READY (from
\* STARTUP the short way, through FAULT)
TowardsReady(st) ==
    CASE st = "STARTUP" -> Press(STARTUP_CHECK_INTERVAL, ArmOnly)
      [] st = "SPLASH" -> Press(SplashMs, NoInput)
      [] st = "READY" -> Press(STARTUP_CHECK_INTERVAL, NoInput)
      [] st = "ARMED" -> Press(STARTUP_CHECK_INTERVAL, NoInput)
      [] st = "LAUNCH_COUNTDOWN" -> Press(STARTUP_CHECK_INTERVAL, NoInput)
      [] st = "LAUNCHING" -> Press(RELAY_ON_MS, NoInput)
      [] st = "COOLDOWN" -> Press(COOLDOWN_MS, NoInput)
      [] st = "ABORT" -> Press(ABORT_INHIBIT_MS, NoInput)
      [] st = "FAULT" -> Press(RESET_HOLD_MS, OnlyReset)

\* the longest run of ticks tried
DriveFuel == Cardinality(State) + 1

RECURSIVE DriveToFault(_, _)
\* the number of ticks chosen by TowardsFault after which p is in FAULT,
\* or -1 if fuel ticks do not get it there
DriveToFault(p, fuel) ==
    IF p.rc.state = "FAULT" THEN 0
    ELSE IF fuel = 0 THEN -1
    ELSE LET k == TowardsFault(p.rc.state)
             n == DriveToFault(Then(p, k.d, k.in), fuel - 1)
         IN  IF n < 0 THEN -1 ELSE n + 1

RECURSIVE DriveToReady(_, _)
\* the same for READY and TowardsReady
DriveToReady(p, fuel) ==
    IF p.rc.state = "READY" THEN 0
    ELSE IF fuel = 0 THEN -1
    ELSE LET k == TowardsReady(p.rc.state)
             n == DriveToReady(Then(p, k.d, k.in), fuel - 1)
         IN  IF n < 0 THEN -1 ELSE n + 1

(* C25: from every state reached by ticks some run of ticks ends in FAULT  *)
(* and some run of ticks ends in READY (from FAULT: reset held with arm    *)
(* disengaged for RESET_HOLD_MS), and one more tick is always possible:    *)
(* update() is defined for every input and leaves the controller in one of *)
(* the nine states.                                                        *)
C25_NeverTerminal ==
    /\ DriveToFault(Here, DriveFuel) >= 0
    /\ DriveToReady(Here, DriveFuel) >= 0
    /\ \A in \in Inputs : After(STARTUP_CHECK_INTERVAL, in).rc.state \in State

C25_Witness ==
    /\ Entered("FAULT")
    /\ h.prev = "COOLDOWN"
    /\ h.fired
    /\ DriveToReady(Here, DriveFuel) = 2
    /\ Then(Then(Here, RESET_HOLD_MS, OnlyReset), RESET_HOLD_MS, OnlyReset).rc.state
           = "READY"

\* the tone output is on
Sounding == hw.mock_tone_active

(* C26: once stopBuzzer() has returned, and until playBuzzerSequence is    *)
(* called again, the tone output is off and the sequencer is inactive with *)
(* no sequence, wherever in a sequence the call came (in a tone, in a gap, *)
(* looping or not), and no updateBuzzer call, however late, changes that.  *)
C26_StopSilences ==
    h.bz.stopped =>
        /\ ~Sounding
        /\ ~rc.buzzer.active
        /\ rc.buzzer.seq = "nullptr"
        /\ \A d \in BuzzSteps :
               LET p == BuzzAfter(d) IN
               ~p.hw.mock_tone_active /\ p.rc.buzzer = rc.buzzer

C26_Witness ==
    /\ h.bz.stopped
    /\ h.bz.cut
    /\ h.bz.last = "tick"
    /\ h.bz.args[3]
    /\ ~Sounding

\* the spacings tried for one more updateBuzzer call
BuzzLook == {0, 1, 39, 40, 41, 79, 80, 81, 5000}

(* C27: right after playBuzzerSequence(sequence, length, loop), whatever   *)
(* the sequencer was doing, the sequencer holds that sequence, length and  *)
(* loop flag, index 0, no gap, no step deadline, and is active exactly     *)
(* when the sequence is not null and length > 0; if it is active the next  *)
(* updateBuzzer starts the first note: index 0, tone phase, deadline = its *)
(* time + the note's duration, the tone on at the note's frequency (off if *)
(* the frequency is 0); if it is not, the next updateBuzzer does nothing.  *)
C27_PlayResets ==
    h.bz.last = "play" =>
        LET sequence == h.bz.args[1]
            length == h.bz.args[2] IN
        /\ rc.buzzer = [seq |-> sequence, len |-> length, idx |-> 0,
                        loop |-> h.bz.args[3], inGap |-> FALSE,
                        active |-> (sequence # "nullptr" /\ length > 0),
                        stepDeadline |-> 0]
        /\ \A d \in BuzzLook :
               LET p == BuzzAfter(d) IN
               IF sequence # "nullptr" /\ length > 0
               THEN LET n == BuzzSeq(sequence)[1] IN
                    /\ p.rc.buzzer = [rc.buzzer EXCEPT
                           !.stepDeadline = Add(Add(hw.mock_millis, d), n.ms)]
                    /\ p.hw.mock_tone_active = (n.freq > 0)
                    /\ p.hw.mock_tone_freq = n.freq
               ELSE p.rc = rc /\ p.hw.mock_tone_active = hw.mock_tone_active

C27_Witness ==
    /\ h.bz.last = "play"
    /\ h.bz.replaced
    /\ h.bz.plays = 2
    /\ rc.buzzer.active
    /\ rc.buzzer.idx = 0
    /\ rc.buzzer.stepDeadline = 0
    /\ Sounding

RECURSIVE Phases(_, _)
\* the phases of the first k notes of sequence q, in order: for each note
\* its tone phase, then its gap phase if the note has a gap
Phases(q, k) ==
    IF k = 0 THEN <<>>
    ELSE Phases(q, k - 1)
         \o (IF q[k].gap_ms > 0 THEN <<<<k - 1, "tone">>, <<k - 1, "gap">>>>
                                ELSE <<<<k - 1, "tone">>>>)

(* C28: the phases started since the last playBuzzerSequence are the       *)
(* phases of the sequence in order (tone, then gap only if gapMs > 0, then *)
(* the next note), started over from index 0 after the last note when the  *)
(* sequence loops; a phase in progress has its deadline at start + the     *)
(* note's durationMs (tone) or gapMs (gap); in a tone phase the tone is on *)
(* at the note's frequency, or off if the frequency is 0, and in a gap it  *)
(* is off; a sequence that does not loop ends after its last phase with    *)
(* the sequencer inactive and the tone off, and a looping one never ends.  *)
C28_PhaseOrder ==
    LET q == BuzzSeq(h.bz.args[1])
        P == Phases(q, h.bz.args[2])
        loop == h.bz.args[3]
        o == h.bz.order IN
    /\ \A k \in 1 .. Len(o) :
           /\ loop \/ k <= Len(P)
           /\ o[k] = P[((k - 1) % Len(P)) + 1]
    /\ h.bz.phase \in {"tone", "gap"} =>
           LET n == q[rc.buzzer.idx + 1] IN
           /\ o[Len(o)] = <<rc.buzzer.idx, h.bz.phase>>
           /\ rc.buzzer.inGap = (h.bz.phase = "gap")
           /\ h.bz.dur = (IF h.bz.phase = "gap" THEN n.gap_ms ELSE n.ms)
           /\ rc.buzzer.stepDeadline = (h.bz.at + h.bz.dur) % ClockMod
           /\ Sounding = (h.bz.phase = "tone" /\ n.freq > 0)
           /\ Sounding => hw.mock_tone_freq = n.freq
    /\ h.bz.phase = "done" =>
           /\ ~loop
           /\ o = P
           /\ ~rc.buzzer.active
           /\ ~Sounding

\* a looping sequence whose first note is silent and has a gap has started
\* over
C28_Witness ==
    /\ h.bz.args = <<"SEQ_REST", 2, TRUE>>
    /\ h.bz.order = Phases(SEQ_REST, 2) \o <<<<0, "tone">>>>
    /\ h.bz.phase = "tone"
    /\ rc.buzzer.idx = 0
    /\ ~Sounding

(* C29: whatever the spacing of the updateBuzzer calls (40 ms, 5000 ms, in *)
(* any order), no phase was left before its start time + its length, and   *)
(* every note was left with its tone started once (never, for frequency    *)
(* 0).  The decision of a call depends on its timestamp alone: in a phase  *)
(* in progress a call before start + length changes nothing in the         *)
(* sequencer or the tone output, however many such calls there are, and a  *)
(* call at or after it ends the phase, however late it comes.              *)
C29_TimestampsOnly ==
    /\ ~h.bz.early
    /\ ~h.bz.late
    /\ ~h.bz.miscount
    /\ h.bz.starts <= 1
    /\ h.bz.phase \in {"tone", "gap"} =>
           \A d \in BuzzLook :
               LET p == BuzzAfter(d) IN
               IF h.elapsed + d - h.bz.at < h.bz.dur
               THEN /\ p.rc.buzzer = rc.buzzer
                    /\ p.hw.mock_tone_active = hw.mock_tone_active
                    /\ p.hw.mock_tone_freq = hw.mock_tone_freq
               ELSE /\ p.rc.buzzer.stepDeadline = 0
                    /\ p.rc.buzzer # rc.buzzer

\* a tone phase of 80 ms saw a call 40 ms after its start, which changed
\* nothing, then one 5040 ms after its start, which ended it
C29_Witness ==
    /\ h.bz.late = FALSE
    /\ h.bz.last = "tick"
    /\ h.bz.phase = "idle"
    /\ h.bz.order = <<<<0, "tone">>>>
    /\ h.bz.dur = 80
    /\ h.elapsed - h.bz.at = 5040
    /\ h.bz.starts = 1
    /\ rc.buzzer.inGap

(* C30: a newly constructed controller, before any tick or call, is in     *)
(* STARTUP with systemLocked true, isArmed() false and isLaunching()       *)
(* false.                                                                  *)
C30_InitialState ==
    (h.ticks = 0 /\ h.prev = "NONE") =>
        /\ getState(rc) = "STARTUP"
        /\ isSystemLocked(rc)
        /\ ~isArmed(rc)
        /\ ~isLaunching(rc)

C30_Witness ==
    /\ h.ticks = 0
    /\ h.prev = "NONE"
    /\ h.elapsed = 0
    /\ getState(rc) = "STARTUP"
    /\ rc.enteredAt = 0
    /\ hw = MockArduinoInterface0

(* C31: whatever state the controller is in, for every target state s a    *)
(* call enter(s) makes getState() return s, isArmed() true exactly for      *)
(* s = ARMED and isLaunching() exactly for s = LAUNCHING, and enter(READY)  *)
(* leaves systemLocked false; the getters say the same of the present       *)
(* state.                                                                  *)
C31_EnterSetsState ==
    /\ isArmed(rc) = (getState(rc) = "ARMED")
    /\ isLaunching(rc) = (getState(rc) = "LAUNCHING")
    /\ \A st \in State :
           LET p == enter(Here, st) IN
           /\ getState(p.rc) = st
           /\ isArmed(p.rc) = (st = "ARMED")
           /\ isLaunching(p.rc) = (st = "LAUNCHING")
           /\ st = "READY" => ~isSystemLocked(p.rc)

\* enter(LAUNCH_COUNTDOWN) was called on a locked controller that ticks
\* had not moved out of STARTUP
C31_Witness ==
    /\ h.direct
    /\ h.prev = "STARTUP"
    /\ h.ticks > 0
    /\ getState(rc) = "LAUNCH_COUNTDOWN"
    /\ ~isArmed(rc)
    /\ ~isLaunching(rc)
    /\ isSystemLocked(enter(Here, "ARMED").rc)
    /\ ~isSystemLocked(enter(Here, "READY").rc)

\* the time by which the test expects READY
StartupMaxTime == 10000

Edges(st) ==
    CASE st = "STARTUP" -> {"FAULT", "READY"}
      [] st = "SPLASH" -> {"STARTUP"}
      [] st = "READY" -> {"ARMED"}
      [] st = "ARMED" -> {"READY", "LAUNCH_COUNTDOWN"}
      [] st = "LAUNCH_COUNTDOWN" -> {"FAULT", "ABORT", "LAUNCHING"}
      [] st = "LAUNCHING" -> {"COOLDOWN"}
      [] st = "COOLDOWN" -> {"FAULT"}
      [] st = "ABORT" -> {"ARMED", "READY"}
      [] st = "FAULT" -> {"READY"}

\* the last step was a tick that changed the state
Moved == h.prev # "NONE" /\ ~h.direct /\ h.prev # rc.state

(* C33: with the global-fault predicate as in the source, a tick that       *)
(* changes the state takes one of the edges of Edges and no other, and      *)
(* takes READY to ARMED only when it reads arm engaged: this holds of the   *)
(* last tick, of every next tick 250 or 5000 ms from now with any inputs,   *)
(* and of every tick along the nominal start-up.  No tick enters SPLASH:    *)
(* the state is SPLASH only after a direct enter(SPLASH).                   *)
C33_OnlyTheseEdges ==
    /\ Moved => rc.state \in Edges(h.prev)
    /\ (Moved /\ h.prev = "READY") => h.armHeld
    /\ rc.state = "SPLASH" => h.enters > 0
    /\ \A d \in StaleSteps, in \in Inputs :
           LET p == After(d, in) IN
           /\ p.rc.state \in Edges(rc.state) \cup {rc.state}
           /\ (rc.state = "READY" /\ p.rc.state = "ARMED") => in.arm
    /\ (h.ticks = 0 /\ h.enters = 0) =>
           \A k \in 0 .. STARTUP_CHECKS_COUNT + 5, in \in Inputs :
               LET s == StartupAfter(k) IN
               Poll(s.rc, s.hw, STARTUP_CHECK_INTERVAL, in).rc.state
                   \in Edges(s.rc.state) \cup {s.rc.state}

\* a tick took SPLASH, entered by a direct enter(), to STARTUP
C33_Witness ==
    /\ Moved
    /\ h.prev = "SPLASH"
    /\ rc.state = "STARTUP"
    /\ h.enters = 1
    /\ Since(0) = 0
    /\ h.elapsed - h.prevEntryT >= SplashMs

\* the spacings tried for a tick with a large time jump
JumpSteps == {STARTUP_CHECK_INTERVAL, 6 * HOLD_TO_LAUNCH_MS}

(* C34: one update() call changes the state at most once, to a direct      *)
(* successor, however large the time jump of the tick: LAUNCHING is        *)
(* entered only from LAUNCH_COUNTDOWN, which was entered from ARMED on an  *)
(* earlier tick; from READY the next tick ends in READY or ARMED and the   *)
(* one after it (tried where READY has just been entered) is not in       *)
(* LAUNCHING, and from ARMED the next tick is not in LAUNCHING, whatever   *)
(* the ticks read and whether they come 250 or 30000 ms apart.             *)
C34_OneTransitionPerTick ==
    /\ Entered("LAUNCHING") =>
           /\ h.prev = "LAUNCH_COUNTDOWN"
           /\ h.cdFrom = "ARMED"
           /\ h.cdAt < h.elapsed
    /\ Entered("LAUNCH_COUNTDOWN") => (h.prev = "ARMED" /\ h.prevEntryT < h.elapsed)
    /\ rc.state = "ARMED" =>
           \A d \in JumpSteps, in \in Inputs :
               After(d, in).rc.state \in {"ARMED", "READY", "LAUNCH_COUNTDOWN"}
    /\ rc.state = "READY" =>
           \A d1 \in JumpSteps, in1 \in Inputs :
               LET p1 == After(d1, in1) IN
               /\ p1.rc.state \in {"READY", "ARMED"}
               /\ (h.ticks = 0 \/ Entered("READY")) =>
                      \A d2 \in JumpSteps, in2 \in Inputs :
                          Then(p1, d2, in2).rc.state \in {"READY", "ARMED"}

\* LAUNCHING was entered on the fourth tick after READY, each tick 5000 ms
\* after the one before
C34_Witness ==
    /\ Entered("LAUNCHING")
    /\ h.cdFrom = "ARMED"
    /\ h.ticks = 4
    /\ h.elapsed - AfterStartup.hw.mock_millis = 4 * HOLD_TO_LAUNCH_MS
    /\ h.launchFrom = h.cdAt - HOLD_TO_LAUNCH_MS

(* C35 as stated: the deadline of LAUNCHING, COOLDOWN and ABORT is the     *)
(* timestamp of the tick that entered the state + the state's duration and *)
(* the entry time of LAUNCH_COUNTDOWN is that timestamp, they do not       *)
(* change while the state lasts, and, also when the timestamps of the      *)
(* ticks differ from the interface clock, LAUNCHING is entered only when   *)
(* HOLD_TO_LAUNCH_MS of tick time have passed since the countdown began.   *)
C35_TimersFromTickTime ==
    /\ rc.state \in {"LAUNCHING", "COOLDOWN", "ABORT"} =>
           rc.deadline = (h.entryT + Window(rc.state)) % ClockMod
    /\ rc.state = "LAUNCH_COUNTDOWN" => rc.enteredAt = h.entryT % ClockMod
    /\ Entered("LAUNCHING") => h.elapsed - h.cdAt >= HOLD_TO_LAUNCH_MS

\* the interface clock lags 5000 ms behind the timestamps: LAUNCHING is
\* entered 250 ms of tick time after the countdown began
C35_Witness ==
    /\ Entered("LAUNCHING")
    /\ h.elapsed - h.cdAt = STARTUP_CHECK_INTERVAL
    /\ Sub(now, hw.mock_millis) = HOLD_TO_LAUNCH_MS
    /\ PinsAre(hw, LOW, LOW, HIGH, HIGH)

\* the durations and gaps of the first k notes of q, added up
RECURSIVE TotalMs(_, _)
TotalMs(q, k) ==
    IF k = 0 THEN 0 ELSE TotalMs(q, k - 1) + q[k].ms + q[k].gap_ms

\* the calls d ms apart that a phase of ms milliseconds takes: the one that
\* starts it and those up to its deadline
PhaseTicks(ms, d) == 1 + ((ms + d - 1) \div d)

\* the calls d ms apart that the first k notes of q take
RECURSIVE TicksFor(_, _, _)
TicksFor(q, k, d) ==
    IF k = 0 THEN 0
    ELSE TicksFor(q, k - 1, d) + PhaseTicks(q[k].ms, d)
             + (IF q[k].gap_ms > 0 THEN PhaseTicks(q[k].gap_ms, d) ELSE 0)

\* updateBuzzer called k times from s, the calls d ms apart
RECURSIVE BuzzRun(_, _, _)
BuzzRun(s, d, k) ==
    IF k = 0 THEN s
    ELSE LET s0 == [s EXCEPT !.hw.mock_millis = Add(@, d)]
         IN  BuzzRun(updateBuzzer(s0, millis(s0)), d, k - 1)

\* no phase of the sequence in c has started
JustPlayed(c) == c.idx = 0 /\ ~c.inGap /\ c.stepDeadline = 0

\* the states that loop a siren, the siren of each and what the ticks read
\* while the state lasts
SirenStates == {"ARMED", "FAULT"}
Siren(st) == IF st = "ARMED" THEN "SND_ARMED" ELSE "SND_FAULT"
Lasting(st) == IF st = "ARMED" THEN ArmOnly ELSE NoInput

SirenOn(p, st) ==
    /\ p.rc.buzzer.active
    /\ p.rc.buzzer.loop
    /\ p.rc.buzzer.seq = Siren(st)
    /\ p.rc.buzzer.len = Len(BuzzSeq(Siren(st)))
    /\ p.rc.buzzer.idx < p.rc.buzzer.len

\* the ticks d ms apart in which the siren of st starts over
SirenTicks(st, d) == 1 + TicksFor(BuzzSeq(Siren(st)), Len(BuzzSeq(Siren(st))), d)

\* p is in st with its siren on, every tick d ms after it that leaves the
\* controller in st leaves the siren on, and so on for k ticks that read
\* what keeps the state
RECURSIVE SirenLasts(_, _, _, _)
SirenLasts(p, st, d, k) ==
    /\ p.rc.state = st
    /\ SirenOn(p, st)
    /\ \A in \in Inputs :
           LET p2 == Then(p, d, in) IN p2.rc.state = st => SirenOn(p2, st)
    /\ k > 0 => SirenLasts(Then(p, d, Lasting(st)), st, d, k - 1)

(* C36: a non-looping sequence in progress is inactive with the tone off   *)
(* after at most one updateBuzzer call per phase start and those up to the *)
(* phase's deadline, whatever the spacing of the calls, and one that was   *)
(* just played is still active after every call that comes before the sum  *)
(* of its notes' durations and gaps has passed since the first call; no    *)
(* updateBuzzer call makes a looping sequence inactive or changes its      *)
(* sequence; and a controller that enters ARMED or FAULT, locked or not,   *)
(* has the siren of the state active and looping after every tick that     *)
(* leaves it in the state.                                                 *)
C36_EndsOrLoops ==
    LET b == rc.buzzer
        q == BuzzSeq(b.seq) IN
    /\ (Playing(b) /\ ~b.loop) =>
           \A d \in BuzzSteps :
               LET p == BuzzRun(Here, d, TicksFor(q, b.len, d)) IN
               /\ ~p.rc.buzzer.active
               /\ ~p.hw.mock_tone_active
    /\ (Playing(b) /\ ~b.loop /\ JustPlayed(b)) =>
           \A d \in BuzzSteps :
               \A k \in 1 .. TicksFor(q, b.len, d) :
                   (k - 1) * d < TotalMs(q, b.len) =>
                       BuzzRun(Here, d, k).rc.buzzer.active
    /\ (Playing(b) /\ b.loop) =>
           \A d \in BuzzLook :
               LET c == BuzzAfter(d).rc.buzzer IN
               /\ c.active /\ c.loop
               /\ c.seq = b.seq /\ c.len = b.len /\ c.idx < c.len
    /\ rc.state \in SirenStates => SirenOn(Here, rc.state)
    /\ h.ticks = 0 =>
           \A st \in SirenStates, lk \in BOOLEAN, d \in BuzzSteps :
               SirenLasts(enter([Here EXCEPT !.rc.systemLocked = lk], st),
                          st, d, SirenTicks(st, d))

\* a looping sequence of two notes is active on its first note again after
\* the six calls that its three phases take
C36_Witness ==
    /\ h.bz.args = <<"SND_CHIRP", 2, TRUE>>
    /\ h.bz.order = Phases(SND_CHIRP, 2)
    /\ h.bz.phase = "idle"
    /\ h.bz.last = "tick"
    /\ rc.buzzer.active
    /\ rc.buzzer.idx = 0
    /\ ~rc.buzzer.inGap

\* the sequencer c, if active, is on a note of its sequence
OnANote(c) ==
    c.active =>
        /\ c.seq # "nullptr"
        /\ c.idx >= 0
        /\ c.idx < c.len
        /\ c.idx + 1 \in DOMAIN BuzzSeq(c.seq)

(* C37: after any interleaving of playBuzzerSequence (a sequence or        *)
(* nullptr, a length of 0 or of the sequence's notes, looping or not),     *)
(* stopBuzzer and updateBuzzer calls, an active sequencer has a sequence   *)
(* that is not null and an index below its length, so the note that        *)
(* updateBuzzer reads is a note of the sequence, and this is so again      *)
(* after one more updateBuzzer call at any spacing.                        *)
C37_IndexInRange ==
    /\ OnANote(rc.buzzer)
    /\ \A d \in BuzzLook : OnANote(BuzzAfter(d).rc.buzzer)

\* stop was called, a non-looping sequence was played after it, and calls
\* have brought it to its last note: the index is one below the length
C37_Witness ==
    /\ h.bz.stops = 1
    /\ h.bz.last = "tick"
    /\ h.bz.args = <<"SND_CHIRP", 2, FALSE>>
    /\ rc.buzzer.active
    /\ rc.buzzer.idx = rc.buzzer.len - 1
    /\ rc.buzzer.stepDeadline # 0

\* the relay pin after the last loop, and what the loop called
RelayPin == fw.pins[IGNIGHTER_RELAY_PIN]
Called(name) == name \in fw.calls

(* C38 as stated: after every loop() of the firmware the relay pin is HIGH *)
(* only if igniterRelayActive is true, and igniterRelayActive is true only *)
(* within 10000 ms of the loop that started the relay.                     *)
C38_RelayOnlyInWindow ==
    /\ RelayPin = HIGH => fw.st.igniterRelayActive
    /\ fw.st.igniterRelayActive =>
           fh.startAt >= 0 /\ fh.at - fh.startAt < IgniterOnMs

\* after a launch, with the relay window over and the switch disarmed, a
\* loop that reads reset held leaves the relay pin HIGH
C38_Witness ==
    /\ RelayPin = HIGH
    /\ ~fw.st.igniterRelayActive
    /\ ~fw.st.activeLaunchLockout
    /\ fw.st.launchLatched
    /\ fw.st.resetActive
    /\ fw.st.resetLightsOverride
    /\ fw.in = OnlyReset

(* C39 as stated: while launchLatched is set no countdown is in progress   *)
(* and start_igniter_relay has been called at most once more often than a  *)
(* celebration has finished; the loop that accepts a reset (calls          *)
(* start_celebration) began with launchLatched set, reads the switch       *)
(* disarmed, and every loop of the MAIN_RESET_HOLD_MS before it read reset *)
(* held; a loop that reads the switch armed accepts none; a loop that      *)
(* reads reset released leaves no hold in progress; and launchLatched is   *)
(* cleared only by the loop in which the celebration finishes.             *)
C39_LatchedUntilReset ==
    /\ fw.st.launchLatched => ~fw.st.countdownActive /\ ~Called("countdown_start")
    /\ fh.starts <= fh.resets + 1
    /\ Called("start_igniter_relay") => ~fh.wasLatched
    /\ Called("start_celebration") =>
           /\ fh.wasLatched
           /\ ~fw.in.arm
           /\ fh.resetFrom >= 0
           /\ fh.at - fh.resetFrom >= MAIN_RESET_HOLD_MS
    /\ (fh.loops > 0 /\ ~fw.in.reset /\ fw.bootPhase = "RUN"
          /\ ~fw.st.activeLaunchLockout) => ~fw.st.resetActive
    /\ (fh.wasLatched /\ ~fw.st.launchLatched) => Called("celebration_done")

\* a reset is accepted by a loop that is the first to read reset held: the
\* hold it completes began MAIN_RESET_HOLD_MS or more earlier, and a loop in
\* between read reset released
C39_Witness ==
    /\ Called("start_celebration")
    /\ fw.st.celebActive
    /\ fh.resetFrom = fh.at
    /\ fh.at - fw.st.resetHoldStartMs >= MAIN_RESET_HOLD_MS
    /\ fh.wasLatched

(* C40 as stated: a loop calls start_igniter_relay only in RUN, reading    *)
(* the switch armed and launch held, as every loop of the COUNTDOWN_MS     *)
(* before it did; a loop that reads launch released or the switch disarmed *)
(* leaves no countdown in progress; after every loop that begins less than *)
(* 10000 ms after the one that started the relay, that one included,       *)
(* igniterRelayActive and activeLaunchLockout are true and the relay pin   *)
(* is HIGH; and when they are false after a launch the pin has been        *)
(* driven LOW.                                                             *)
C40_CountdownThenTenSeconds ==
    /\ Called("start_igniter_relay") =>
           /\ fw.bootPhase = "RUN"
           /\ fw.in.arm /\ fw.in.launch
           /\ fh.launchFrom >= 0
           /\ fh.at - fh.launchFrom >= COUNTDOWN_MS
    /\ (fh.loops > 0 /\ ~(fw.in.arm /\ fw.in.launch)) => ~fw.st.countdownActive
    /\ (fh.startAt >= 0 /\ fh.at - fh.startAt < IgniterOnMs) =>
           /\ fw.st.igniterRelayActive
           /\ fw.st.activeLaunchLockout
           /\ RelayPin = HIGH
    /\ (fh.startAt >= 0 /\ fh.at - fh.startAt >= IgniterOnMs
          /\ fh.resetFrom < 0 /\ fh.resets = 0) =>
           /\ ~fw.st.igniterRelayActive
           /\ ~fw.st.activeLaunchLockout
           /\ RelayPin = LOW

\* the part of C40 about the countdown alone
C40_OnlyAfterCountdown ==
    /\ Called("start_igniter_relay") =>
           /\ fw.bootPhase = "RUN"
           /\ fw.in.arm /\ fw.in.launch
           /\ fh.launchFrom >= 0
           /\ fh.at - fh.launchFrom >= COUNTDOWN_MS
    /\ (fh.loops > 0 /\ ~(fw.in.arm /\ fw.in.launch)) => ~fw.st.countdownActive

\* the loop that completes the countdown starts the relay and ends its
\* window itself: it returns with the relay pin LOW and the lockout released
C40_Witness ==
    /\ Called("start_igniter_relay")
    /\ fh.at - fh.launchFrom >= COUNTDOWN_MS
    /\ fw.st.launchLatched
    /\ ~fw.st.igniterRelayActive
    /\ ~fw.st.activeLaunchLockout
    /\ RelayPin = LOW
    /\ Sub(fw.st.igniterRelayStartMs, Add(fw.millis, ClockMod - LOOP_SETTLE_MS)) = 0

====
